---- MODULE Spec2Model ----
(***************************************************************************)
(* A model of the cyber_ai agent core: the blackboard (blackboard/api.py), *)
(* the agent step and its merge / cache logic (agents/base_agent.py) and   *)
(* the scenario loop (orchestrator/scenario_orchestrator.py).              *)
(*                                                                         *)
(* Python values are tagged records: a str, None, a list (a sequence of    *)
(* values) or a dict (a function from keys to values).  Equality of the    *)
(* records is Python's == on these values (dict equality ignores order).   *)
(***************************************************************************)
EXTENDS Integers, Sequences, FiniteSets, TLC

VARIABLES
    mstate,     \* update_state_with_categories: the state being merged into
    mfrag,      \* the fragment of the last merge (NoFrag before the first)
    mprev,      \* the state the last merge was applied to
    blackboard, \* BlackboardAPI.blackboard, the shared dict
    snapshot,   \* the content of the file at BlackboardAPI.json_path
    diskOk,     \* whether a write of the snapshot file succeeds
    bbCall,     \* the last BlackboardAPI call: its name and how it ended
    command_cache,  \* BaseAgent.command_cache: action -> output
    llm_cache,      \* BaseAgent.llm_cache: key -> parsed list or text
    epsilon,        \* BaseAgent.epsilon, a rational <<numerator, denominator>>
    min_epsilon,    \* BaseAgent.min_epsilon
    epsilon_decay,  \* BaseAgent.epsilon_decay
    actions_history,        \* BaseAgent.actions_history
    last_state,             \* BaseAgent.last_state
    last_action,            \* BaseAgent.last_action
    episode_total_reward,   \* BaseAgent.episode_total_reward
    conf,       \* BaseAgent.name and BaseAgent.action_space, set by __init__
    pc,         \* the position of the agent in run / parse_output
    loc,        \* the local variables of the call in progress
    obs,        \* what the external collaborators and the caller have seen
    current_step,       \* ScenarioOrchestrator.current_step
    active,             \* ScenarioOrchestrator.active
    stop_conditions,    \* ScenarioOrchestrator.stop_conditions
    lpc,        \* the position of the orchestrator in run_scenario_loop
    trail       \* the steps the agent manager was asked to run

mergeVars == <<mstate, mfrag, mprev>>
bbVars == <<blackboard, snapshot, diskOk, bbCall>>
cacheVars == <<command_cache, llm_cache>>
epsVars == <<epsilon, min_epsilon, epsilon_decay>>
stepVars == <<actions_history, last_state, last_action, episode_total_reward>>
agentVars == <<cacheVars, epsVars, stepVars, conf, pc, loc, obs>>
loopVars == <<current_step, active, stop_conditions, lpc, trail>>
vars == <<mergeVars, bbVars, agentVars, loopVars>>

----------------------------------------------------------------------------
(* Python values *)

Str(s) == [t |-> "str", v |-> s]
None == [t |-> "none", v |-> ""]
Num(n) == [t |-> "num", v |-> n]
List(q) == [t |-> "list", v |-> q]
Dict(f) == [t |-> "dict", v |-> f]

IsDict(x) == x.t = "dict"
IsList(x) == x.t = "list"
EmptyDict == Dict([k \in {} |-> None])

\* key in d, d[key] and d.get(key, default) of a dict value
HasKey(d, k) == IsDict(d) /\ k \in DOMAIN d.v
Get(d, k, default) == IF HasKey(d, k) THEN d.v[k] ELSE default

\* x in seq (Python's `in` on a list: equality with some element)
InList(x, q) == \E i \in 1..Len(q) : q[i] = x

----------------------------------------------------------------------------
(* config.py: the default state structure.  The model keeps one leaf of    *)
(* each kind of _BASE_DEFAULT_STATE: a scalar directly under target, a     *)
(* scalar in a nested mapping, and a list of sub-mappings that holds the   *)
(* template's placeholder item.                                            *)

ServicePlaceholder == Dict([port |-> Str("")])

DEFAULT_STATE_STRUCTURE ==
    Dict([target |-> Dict([hostname |-> Str(""),
                           os       |-> Dict([name |-> Str("")]),
                           services |-> List(<<ServicePlaceholder>>)])])

----------------------------------------------------------------------------
(* BaseAgent.update_state_with_categories *)

\* lines 391-393: append the items of cat_val that the list does not hold yet
merge_list_nodedup(state_val, cat_val) == state_val \o cat_val

RECURSIVE merge_list(_, _)
merge_list(state_val, cat_val) ==
    IF cat_val = <<>> THEN state_val
    ELSE merge_list(IF InList(Head(cat_val), state_val) THEN state_val
                    ELSE Append(state_val, Head(cat_val)),
                    Tail(cat_val))

\* lines 395-398: a value other than 'NO' fills a state value that is "" or None
fill_scalar_overwrite(state_val, cat_val) ==
    IF cat_val # Str("NO") THEN cat_val ELSE state_val

\* fill_scalar that takes 'NO' for a value
fill_scalar_sentinel(state_val, cat_val) ==
    IF state_val \in {Str(""), None} THEN cat_val ELSE state_val

fill_scalar(state_val, cat_val) ==
    IF cat_val # Str("NO")
    THEN IF state_val \in {Str(""), None} THEN cat_val ELSE state_val
    ELSE state_val

\* lines 376-400: recurse(state_node, category_node), as the new state_node
RECURSIVE recurse(_, _)
recurse(state_node, category_node) ==
    IF IsDict(category_node) /\ IsDict(state_node)
    THEN Dict([key \in DOMAIN state_node.v |->
            IF key \notin DOMAIN category_node.v THEN state_node.v[key]
            ELSE LET state_val == state_node.v[key]
                     cat_val == category_node.v[key]
                 IN  IF IsDict(cat_val) THEN recurse(state_val, cat_val)
                     ELSE IF IsList(cat_val) /\ IsList(state_val)
                          THEN List(merge_list(state_val.v, cat_val.v))
                          ELSE fill_scalar(state_val, cat_val)])
    ELSE state_node

\* lines 365-403: the merge works on a deep copy and returns it
update_state_with_categories(state, categories) == recurse(state, categories)

----------------------------------------------------------------------------
(* blackboard/api.py: BlackboardAPI.  Each operation is a function of the  *)
(* blackboard dict that returns the new dict and whether the call raised.  *)

\* d[k] = val
SetKey(d, k, val) ==
    Dict([x \in DOMAIN d.v \cup {k} |-> IF x = k THEN val ELSE d.v[x]])

\* d.update(e) for two dicts
DictUpdate(d, e) ==
    Dict([x \in DOMAIN d.v \cup DOMAIN e.v |->
            IF x \in DOMAIN e.v THEN e.v[x] ELSE d.v[x]])

\* d.setdefault(k, default), as the dict it leaves
SetDefault(d, k, default) == IF HasKey(d, k) THEN d ELSE SetKey(d, k, default)

Returned(bb) == [bb |-> bb, raised |-> FALSE]
Raised(bb) == [bb |-> bb, raised |-> TRUE]

\* the agent names the callers pass, and str.lower() on them
AgentNames == {"ReconAgent", "reconagent", "VulnAgent", "ExploitAgent"}
Lower(name) ==
    CASE name = "ReconAgent" -> "reconagent"
      [] name = "reconagent" -> "reconagent"
      [] name = "VulnAgent" -> "vulnagent"
      [] name = "ExploitAgent" -> "exploitagent"

\* time.time(): a value the environment chooses
Times == {"t1", "t2"}

\* blackboard.blackboard.initialize_blackboard: the template with empty leaves
initialize_blackboard == DEFAULT_STATE_STRUCTURE

\* a list argument is a list value of its own, or the list object the caller
\* keeps in actions_history, whose items are read when the list is used
CallerList == [t |-> "ref", v |-> "actions_history"]
ListItems(x) ==
    IF x = CallerList THEN List([i \in 1..Len(actions_history) |->
                                    Str(actions_history[i])])
    ELSE x

\* list.copy(): a new list with the items the list holds now
list_copy(x) == ListItems(x)

\* fill_state keeping the list it is given
fill_state_nocopy(bb, history) ==
    SetKey(SetKey(SetKey(bb, "actions_history", history),
                  "cpes", List(<<>>)),
           "vulnerabilities_found", List(<<>>))

\* lines 24-27
fill_state(bb, history) ==
    SetKey(SetKey(SetKey(bb, "actions_history", list_copy(history)),
                  "cpes", List(<<>>)),
           "vulnerabilities_found", List(<<>>))

\* A copy of the blackboard is the value it held, and which of its containers
\* are still the objects of the blackboard: none of them (copy.deepcopy), the
\* nested ones (a copy of the outer dict alone), or all (the dict itself).
deepcopy(x) == [share |-> "none", val |-> x]
shallowcopy(x) == [share |-> "nested", val |-> x]

\* what the caller reads in the state it took: a container that is still an
\* object of the blackboard is read there
ReadCopy(c, bb) ==
    IF c.share = "none" \/ ~IsDict(c.val) THEN c.val
    ELSE IF c.share = "all" THEN bb
         ELSE Dict([k \in DOMAIN c.val.v |->
                      IF (IsDict(c.val.v[k]) \/ IsList(c.val.v[k]))
                            /\ k \in DOMAIN bb.v
                      THEN bb.v[k] ELSE c.val.v[k]])

\* get_state_for_agent copying the outer dict alone
get_state_for_agent_shallow(bb) == shallowcopy(bb)

\* lines 29-39
get_state_for_agent(bb) == deepcopy(bb)

\* lines 41-50: the entry gets its timestamp; the append to the log is
\* commented out, so the blackboard is as it was
append_action_log(bb, entry, ts) == bb

\* lines 86-100: the entries of the log that name the agent, newest first,
\* cut to the first n
ActionsLog(bb) == Get(bb, "actions_log", List(<<>>)).v
Reversed(q) == [i \in 1..Len(q) |-> q[Len(q) + 1 - i]]
FirstN(q, n) == SubSeq(q, 1, IF Len(q) < n THEN Len(q) ELSE n)
get_last_actions(bb, agent, n) ==
    FirstN(SelectSeq(Reversed(ActionsLog(bb)),
                     LAMBDA log : Get(log, "agent", None) = Str(agent)), n)

\* lines 52-66
record_reward(bb, action, reward, ts) ==
    LET b1 == SetDefault(bb, "reward_log", List(<<>>))
        entry == Dict([action |-> Str(action), reward |-> Num(reward),
                       timestamp |-> Str(ts)])
    IN  SetKey(b1, "reward_log", List(Append(b1.v["reward_log"].v, entry)))

\* lines 68-84
add_error(bb, agent, action, error, ts) ==
    LET b1 == SetDefault(bb, "errors", List(<<>>))
        entry == Dict([agent |-> Str(agent), action |-> Str(action),
                       error |-> Str(error), timestamp |-> Str(ts)])
    IN  SetKey(b1, "errors", List(Append(b1.v["errors"].v, entry)))

\* a recon reducer that takes every key of the fragment
update_from_recon_agent_all(bb, new_state) ==
    Returned(DictUpdate(bb, new_state))

\* lines 136-143.  dict.update takes a mapping; with an empty str or list it
\* changes nothing, with any other value of the model it raises, after the
\* setdefault has been done.
update_from_recon_agent(bb, new_state) ==
    LET r1 == IF ~HasKey(new_state, "target") THEN Returned(bb)
              ELSE LET b1 == SetDefault(bb, "target", EmptyDict)
                       cur == b1.v["target"]
                       upd == new_state.v["target"]
                   IN  IF ~IsDict(cur) THEN Raised(b1)
                       ELSE IF IsDict(upd)
                            THEN Returned(SetKey(b1, "target", DictUpdate(cur, upd)))
                            ELSE IF upd \in {Str(""), List(<<>>)}
                                 THEN Returned(b1)
                                 ELSE Raised(b1)
    IN  IF r1.raised \/ ~HasKey(new_state, "web_directories_status") THEN r1
        ELSE Returned(SetKey(r1.bb, "web_directories_status",
                             new_state.v["web_directories_status"]))

\* lines 145-152
update_from_vuln_agent(bb, new_state) ==
    LET b1 == IF HasKey(new_state, "cpes")
              THEN SetKey(bb, "cpes", new_state.v["cpes"]) ELSE bb
    IN  Returned(IF HasKey(new_state, "vulnerabilities_found")
                 THEN SetKey(b1, "vulnerabilities_found",
                             new_state.v["vulnerabilities_found"])
                 ELSE b1)

\* update_state giving every other name the recon reducer
update_state_anyname(bb, agent_name, new_state) ==
    IF ~IsDict(new_state) THEN Raised(bb)
    ELSE IF Lower(agent_name) = "vulnagent"
         THEN update_from_vuln_agent(bb, new_state)
         ELSE update_from_recon_agent(bb, new_state)

\* lines 114-134, up to the save
update_state(bb, agent_name, new_state) ==
    IF ~IsDict(new_state) THEN Raised(bb)
    ELSE IF Lower(agent_name) = "reconagent"
         THEN update_from_recon_agent(bb, new_state)
         ELSE IF Lower(agent_name) = "vulnagent"
              THEN update_from_vuln_agent(bb, new_state)
              ELSE Raised(bb)

\* lines 172-177: the file holds the blackboard after a write that succeeds;
\* a failure is caught and printed
save_to_file_uncaught(bb, file, ok) ==
    [file |-> IF ok THEN bb ELSE file, raised |-> ~ok]

save_to_file(bb, file, ok) ==
    [file |-> IF ok THEN bb ELSE file, raised |-> FALSE]

----------------------------------------------------------------------------
(* agents/base_agent.py: BaseAgent.  Rationals stand for the floats.       *)

RECURSIVE Gcd(_, _)
Gcd(a, b) == IF b = 0 THEN a ELSE Gcd(b, a % b)
Abs(n) == IF n < 0 THEN -n ELSE n
Rat(n, d) == LET g == Gcd(Abs(n), d) IN <<n \div g, d \div g>>
RLess(a, b) == a[1] * b[2] < b[1] * a[2]
RLeq(a, b) == a[1] * b[2] <= b[1] * a[2]
RMul(a, b) == Rat(a[1] * b[1], a[2] * b[2])
RMax(a, b) == IF RLess(a, b) THEN b ELSE a

\* the action catalogue (action_space) of the scenario of the specification
Action1 == "scan {ip}"
Action2 == "enum {ip}"
action_space == <<Action1, Action2>>
Actions == {action_space[i] : i \in 1..Len(action_space)}

EmptyCache == [k \in {} |-> ""]

\* cache[key] = value
CachePut(cache, key, value) ==
    [k \in DOMAIN cache \cup {key} |-> IF k = key THEN value ELSE cache[k]]

\* the name of the recon agent
ReconName == "ReconAgent"

\* action.format(ip=ip) on the actions of the catalogue
Format(action, ip) ==
    CASE action = Action1 -> "scan " \o ip
      [] action = Action2 -> "enum " \o ip

\* run_clean_output(command, timeout): text, or an exception (a timeout)
CommandOutcomes ==
    {[ok |-> TRUE, out |-> "out1"], [ok |-> TRUE, out |-> "out2"],
     [ok |-> TRUE, out |-> ""], [ok |-> FALSE, out |-> "timeout"]}

\* lines 235-255.  outcome is what the command does if it is run.
perform_action_nocache(cache, bb, name, action, outcome, ts) ==
    LET ip == Get(Get(bb, "target", EmptyDict), "ip", Str("127.0.0.1")).v
        output == IF outcome.ok THEN outcome.out ELSE ""
    IN  [cache |-> CachePut(cache, action, output),
         bb |-> IF outcome.ok THEN bb
                ELSE add_error(bb, name, action, outcome.out, ts),
         output |-> output,
         executed |-> TRUE,
         failed |-> ~outcome.ok,
         command |-> Format(action, ip)]

\* perform_action that records no error when the command fails
perform_action_noerror(cache, bb, name, action, outcome, ts) ==
    LET ip == Get(Get(bb, "target", EmptyDict), "ip", Str("127.0.0.1")).v
        output == IF outcome.ok THEN outcome.out ELSE ""
    IN  IF action \in DOMAIN cache
        THEN [cache |-> cache, bb |-> bb, output |-> cache[action],
              executed |-> FALSE, failed |-> FALSE,
              command |-> Format(action, ip)]
        ELSE [cache |-> CachePut(cache, action, output), bb |-> bb,
              output |-> output, executed |-> TRUE, failed |-> ~outcome.ok,
              command |-> Format(action, ip)]

\* perform_action that stores the output of a command that succeeded only
perform_action_failuncached(cache, bb, name, action, outcome, ts) ==
    LET ip == Get(Get(bb, "target", EmptyDict), "ip", Str("127.0.0.1")).v
        command == Format(action, ip)
    IN  IF action \in DOMAIN cache
        THEN [cache |-> cache, bb |-> bb, output |-> cache[action],
              executed |-> FALSE, failed |-> FALSE, command |-> command]
        ELSE IF outcome.ok
             THEN [cache |-> CachePut(cache, action, outcome.out), bb |-> bb,
                   output |-> outcome.out, executed |-> TRUE,
                   failed |-> FALSE, command |-> command]
             ELSE [cache |-> cache,
                   bb |-> add_error(bb, name, action, outcome.out, ts),
                   output |-> "", executed |-> TRUE, failed |-> TRUE,
                   command |-> command]

perform_action(cache, bb, name, action, outcome, ts) ==
    LET ip == Get(Get(bb, "target", EmptyDict), "ip", Str("127.0.0.1")).v
        command == Format(action, ip)
    IN  IF action \in DOMAIN cache
        THEN [cache |-> cache, bb |-> bb, output |-> cache[action],
              executed |-> FALSE, failed |-> FALSE, command |-> command]
        ELSE LET output == IF outcome.ok THEN outcome.out ELSE ""
             IN  [cache |-> CachePut(cache, action, output),
                  bb |-> IF outcome.ok THEN bb
                         ELSE add_error(bb, name, action, outcome.out, ts),
                  output |-> output,
                  executed |-> TRUE,
                  failed |-> ~outcome.ok,
                  command |-> command]

----------------------------------------------------------------------------
(* BaseAgent.parse_output.  A text is a sequence of characters; Text makes *)
(* the str of it.                                                          *)

RECURSIVE Text(_)
Text(chars) == IF chars = <<>> THEN "" ELSE Head(chars) \o Text(Tail(chars))

\* str.strip()
RECURSIVE LStrip(_)
LStrip(chars) ==
    IF chars # <<>> /\ Head(chars) = " " THEN LStrip(Tail(chars)) ELSE chars
RECURSIVE RStrip(_)
RStrip(chars) ==
    IF chars # <<>> /\ chars[Len(chars)] = " "
    THEN RStrip(SubSeq(chars, 1, Len(chars) - 1)) ELSE chars
Strip(chars) == RStrip(LStrip(chars))

\* json.loads on texts over the characters space, [, ], 1 and w: a number
\* (a run of the digit), or a list with no or one element; Invalid stands
\* for JSONDecodeError
Invalid == [t |-> "invalid", v |-> ""]
IsNumber(chars) == chars # <<>> /\ \A i \in 1..Len(chars) : chars[i] = "1"
RECURSIVE NumberOf(_)
NumberOf(chars) ==
    IF chars = <<>> THEN 0 ELSE 10 * NumberOf(SubSeq(chars, 1, Len(chars) - 1)) + 1
RECURSIVE json_loads(_)
json_loads(chars) ==
    LET body == Strip(chars)
    IN  IF IsNumber(body) THEN Num(NumberOf(body))
        ELSE IF Len(body) >= 2 /\ body[1] = "[" /\ body[Len(body)] = "]"
             THEN LET inner == Strip(SubSeq(body, 2, Len(body) - 1))
                  IN  IF inner = <<>> THEN List(<<>>)
                      ELSE LET e == json_loads(inner)
                           IN  IF e = Invalid THEN Invalid ELSE List(<<e>>)
             ELSE Invalid

\* lines 40-45
is_valid_json(chars) == json_loads(chars) # Invalid

\* json.dumps of a parsed value
RECURSIVE json_dumps(_)
json_dumps(x) ==
    IF x.t = "num" THEN ToString(x.v)
    ELSE IF x.t = "list"
         THEN "[" \o (IF x.v = <<>> THEN "" ELSE json_dumps(x.v[1])) \o "]"
         ELSE x.v

\* lines 309-332: the text after the start marker, stripped; "" without the
\* marker.  A raw reply is [start, body]: whether it holds the start marker,
\* and the text that follows it up to the end marker or the end.
extract_model_response(raw) == IF raw.start THEN Strip(raw.body) ELSE <<>>

\* the order in which the mappings of config.py list their keys
KeyOrder == <<"target", "hostname", "os", "name", "services">>

KeysInOrder(d) ==
    LET F[i \in 0..Len(KeyOrder)] ==
            IF i = 0 THEN <<>>
            ELSE IF KeyOrder[i] \in DOMAIN d.v THEN Append(F[i - 1], KeyOrder[i])
                 ELSE F[i - 1]
    IN  F[Len(KeyOrder)]

\* lines 272-307, for the mappings, lists and scalars of the template
RECURSIVE extract_paths(_, _, _)
RECURSIVE extract_items(_, _, _, _)

\* extract_items with the suffix on every list path
RECURSIVE extract_items_brackets(_, _, _, _)
extract_items_brackets(d, keys, prefix, include_brackets) ==
    IF keys = <<>> THEN <<>>
    ELSE LET key == Head(keys)
             val == d.v[key]
             current_path == IF prefix # "" THEN prefix \o "::" \o key ELSE key
         IN  (IF IsList(val)
              THEN <<current_path \o "[]">>
              ELSE extract_paths(val, current_path, include_brackets))
             \o extract_items_brackets(d, Tail(keys), prefix,
                                       include_brackets)

extract_items(d, keys, prefix, include_brackets) ==
    IF keys = <<>> THEN <<>>
    ELSE LET key == Head(keys)
             val == d.v[key]
             current_path == IF prefix # "" THEN prefix \o "::" \o key ELSE key
         IN  (IF IsList(val)
              THEN <<IF include_brackets THEN current_path \o "[]"
                     ELSE current_path>>
              ELSE extract_paths(val, current_path, include_brackets))
             \o extract_items(d, Tail(keys), prefix, include_brackets)
extract_paths(d, prefix, include_brackets) ==
    IF IsDict(d) THEN extract_items(d, KeysInOrder(d), prefix, include_brackets)
    ELSE <<prefix>>

\* the paths of a template that holds the key target a second time, below
\* itself
nested_target_paths ==
    extract_paths(Dict([target |->
                          Dict([hostname |-> Str(""),
                                target |-> Dict([hostname |-> Str("")])])]),
                  "", FALSE)

\* line 334
category_paths == extract_paths(DEFAULT_STATE_STRUCTURE, "", FALSE)

\* Cache.llm_cache.LLMCache: a keyed store; get gives None for a key that
\* was never set
llm_get(cache, key) == IF key \in DOMAIN cache THEN cache[key] ELSE None
llm_set(cache, key, value) == CachePut(cache, key, value)

\* the truth value of a Python value (`if cached_response:`)
Truthy(x) ==
    CASE x.t = "none" -> FALSE
      [] x.t = "str" -> x.v # ""
      [] x.t = "list" -> x.v # <<>>
      [] x.t = "num" -> x.v # 0
      [] x.t = "dict" -> DOMAIN x.v # {}

\* line 338
CacheKey(action, cat_path) == action \o "::" \o cat_path

\* lines 337-359: one iteration of the loop, raw being the reply of
\* model.run if it is called.  used says whether full_responses gets the
\* response.
parse_leaf(cache, action, cat_path, raw) ==
    LET key == CacheKey(action, cat_path)
        cached_response == llm_get(cache, key)
        response == extract_model_response(raw)
        parsed == json_loads(response)
    IN  IF Truthy(cached_response)
        THEN [cache |-> cache, called |-> FALSE, used |-> TRUE,
              response |-> IF cached_response.t = "str" THEN cached_response.v
                           ELSE json_dumps(cached_response)]
        ELSE IF is_valid_json(response) /\ IsList(parsed)
             THEN [cache |-> llm_set(cache, key, parsed), called |-> TRUE,
                   used |-> FALSE, response |-> Text(response)]
             ELSE [cache |-> llm_set(cache, key, Str(Text(Strip(response)))),
                   called |-> TRUE, used |-> TRUE,
                   response |-> Text(Strip(response))]

----------------------------------------------------------------------------
(* Inputs of the merge: fragments over the keys of the template's target   *)

MaxFragLen == 2

Item1 == Dict([port |-> Str("22")])
Item2 == Str("ssh")
Items == {Item1, Item2}

SeqsUpTo(S, n) == UNION {[1..k -> S] : k \in 0..n}
FragLists == {List(q) : q \in SeqsUpTo(Items, MaxFragLen)}

Absent == [t |-> "absent", v |-> ""]

HostnameOpts == {Absent, Str(""), None, Str("box1"), Str("other"), Str("NO"),
                 List(<<Item2, Item2>>), Dict([name |-> Str("box1")])}
ServicesOpts == {Absent, Str("NO"), Str("box1"), Dict([port |-> Str("22")])}
                    \cup FragLists
OsOpts == {Absent, Str("linux"), Str("NO"), List(<<Item2>>),
           Dict([name |-> Str("linux")]), Dict([name |-> Str("NO")]),
           Dict([name |-> List(<<Item2>>)]), Dict([bogus |-> Str("x")])}

\* a dict holding the keys whose choice is not Absent
DictOf(choice) ==
    Dict([k \in {k \in DOMAIN choice : choice[k] # Absent} |-> choice[k]])

\* fragments with one key of the target, and the combinations of a filled
\* hostname, a service list and an os mapping
TargetFragments ==
    {DictOf([hostname |-> h]) : h \in HostnameOpts}
        \cup {DictOf([services |-> s]) : s \in ServicesOpts}
        \cup {DictOf([os |-> o]) : o \in OsOpts}
        \cup {DictOf([hostname |-> h, os |-> o, services |-> s]) :
                h \in {Absent, Str("box1")},
                s \in {Absent, List(<<Item1>>)},
                o \in {Absent, Dict([name |-> Str("linux")])}}

Fragments ==
    {Dict([target |-> tf]) : tf \in TargetFragments}
        \cup {None, Str("NO"), EmptyDict, Dict([target |-> Str("box1")]),
              Dict([bogus |-> Dict([hostname |-> Str("box1")])])}

NoFrag == [t |-> "nofrag", v |-> ""]

MergeStart ==
    {Dict([target |-> Dict([hostname |-> h,
                            os       |-> Dict([name |-> Str("")]),
                            services |-> List(s)])]) :
        h \in {Str(""), None}, s \in {<<>>, <<ServicePlaceholder>>}}

\* the last call: its name, whether it raised, its agent and argument, and
\* whether the file could be written when it was made
NoCall == [agent |-> "", arg |-> None, ok |-> TRUE, op |-> "none",
           raised |-> FALSE]

\* BlackboardAPI.__init__ (lines 13-22) on a freshly initialized blackboard
BBStart ==
    /\ blackboard = initialize_blackboard
    /\ snapshot = blackboard
    /\ diskOk = TRUE
    /\ bbCall = NoCall

\* no step asked for yet: the kinds of the steps of the scenario in
\* progress, whether a stop condition has returned true in it, and the
\* number of run_scenario_loop calls made
NoTrail == [loops |-> 0, steps |-> <<>>, stopped |-> FALSE]

\* ScenarioOrchestrator.__init__ (lines 15-32)
OrchestratorNew(conditions) ==
    /\ current_step = 0
    /\ active = FALSE
    /\ stop_conditions = conditions
    /\ lpc = "new"
    /\ trail = NoTrail

OrchestratorIdle == OrchestratorNew(<<>>)

\* config.py line 13 (EPSILON) and the defaults of BaseAgent.__init__
EPSILON == Rat(6, 10)
DefaultMinEpsilon == Rat(1, 100)
DefaultEpsilonDecay == Rat(995, 1000)

NoRaw == [body |-> <<>>, start |-> FALSE]

\* no experience given to the policy model or the replay buffer yet
NoExperience == [action |-> -1, next_state |-> None, reward |-> 0,
                 state |-> None]

\* no tuple given to the replay buffer yet
NoReplay == [action |-> -1, done |-> FALSE, next_state |-> None,
             reward |-> 0, state |-> None]

\* nothing seen yet.  runs counts the runs of the command facility per
\* action and firstOut holds the output of the first perform_action call
\* per action; the other fields describe the last call (call).
NoObs == [action |-> "", action_index |-> 0, adds |-> 0, before |-> None,
          branch |-> "none", cached |-> EmptyCache, call |-> "none",
          called |-> FALSE, cat_path |-> "", checked |-> None,
          command |-> "", committed |-> None, decays |-> 0,
          eps0 |-> Rat(0, 1), epsPrev |-> Rat(0, 1), executed |-> FALSE,
          expect |-> None, experience |-> NoExperience, explored |-> {},
          failed |-> FALSE, firstOut |-> EmptyCache, key |-> "", muts |-> 0,
          nth |-> 0, observed |-> None, output |-> "", q_values |-> <<>>,
          rand_index |-> 0, raw |-> NoRaw, replay |-> NoReplay,
          rewards |-> <<>>, rnd |-> Rat(0, 1),
          runs |-> [a \in Actions |-> 0], steps |-> 0, stored |-> FALSE,
          updates |-> 0]

\* the replay buffer handed to __init__ (line 59) when there is one
ReplayBufferObject == [t |-> "ref", v |-> "replay_buffer"]

\* no state taken from the blackboard yet
NoCopy == [share |-> "none", val |-> None]

\* the local variables of a caller, of run and of parse_output before a call
NoLocals == [action |-> "", d |-> None, encoded_next_state |-> None,
             encoded_state |-> None, fragment |-> None,
             full_responses |-> EmptyCache, idx |-> 0,
             include_brackets |-> FALSE, new_info |-> None,
             next_state |-> None, paths |-> <<>>, raised |-> FALSE,
             result |-> "", ret |-> "idle", reward |-> 0, shared |-> {},
             state |-> NoCopy]

\* BaseAgent.__init__ (lines 54-76)
AgentStartAs(name, catalogue, buffer, cmd_cache, e0, min_eps, decay) ==
    /\ conf = [action_space |-> catalogue, name |-> name,
               replay_buffer |-> buffer]
    /\ command_cache = cmd_cache
    /\ llm_cache = EmptyCache
    /\ epsilon = e0
    /\ min_epsilon = min_eps
    /\ epsilon_decay = decay
    /\ actions_history = <<>>
    /\ last_state = None
    /\ last_action = None
    /\ episode_total_reward = 0
    /\ pc = "idle"
    /\ loc = NoLocals
    /\ obs = [NoObs EXCEPT !.eps0 = e0, !.epsPrev = e0]

\* the recon agent over the catalogue of the scenario
AgentStart(cmd_cache, e0, min_eps, decay) ==
    AgentStartAs(ReconName, action_space, ReplayBufferObject, cmd_cache,
                 e0, min_eps, decay)

AgentIdle ==
    AgentStart(EmptyCache, EPSILON, DefaultMinEpsilon, DefaultEpsilonDecay)

MergeIdle ==
    /\ mstate = DEFAULT_STATE_STRUCTURE
    /\ mfrag = NoFrag
    /\ mprev = mstate

InitMerge ==
    /\ mstate \in MergeStart
    /\ mfrag = NoFrag
    /\ mprev = mstate
    /\ BBStart
    /\ OrchestratorIdle
    /\ AgentIdle

\* line 374 and the writes of recurse: the state the caller passed, as the
\* call leaves it.  recurse writes into the copy of line 374.
merge_input(state, categories) ==
    LET updated == deepcopy(state)
    IN  ReadCopy(updated, recurse(updated.val, categories))

\* one call new = update_state_with_categories(state, fragment) on the
\* previous result; mprev is the state that was passed, after the call
Merge ==
    \E f \in Fragments :
        /\ mprev' = merge_input(mstate, f)
        /\ mfrag' = f
        /\ mstate' = update_state_with_categories(mstate, f)
        /\ UNCHANGED <<bbVars, agentVars, loopVars>>

NextMerge == Merge

SpecMerge == InitMerge /\ [][NextMerge]_vars

----------------------------------------------------------------------------
(* Properties of the merge *)

IsPrefix(a, b) == Len(a) <= Len(b) /\ SubSeq(b, 1, Len(a)) = a

\* the value at a path of keys, Absent when the path leaves the mappings
RECURSIVE At(_, _)
At(x, path) ==
    IF path = <<>> THEN x
    ELSE IF HasKey(x, Head(path)) THEN At(x.v[Head(path)], Tail(path))
         ELSE Absent

\* every non-empty scalar of old is unchanged in new, and every list of old
\* is a prefix of the list at the same place of new
RECURSIVE Preserves(_, _)
Preserves(old, new) ==
    IF IsDict(old)
    THEN /\ IsDict(new)
         /\ \A k \in DOMAIN old.v :
                k \in DOMAIN new.v /\ Preserves(old.v[k], new.v[k])
    ELSE IF IsList(old)
         THEN IsList(new) /\ IsPrefix(old.v, new.v)
         ELSE old \in {Str(""), None} \/ new = old

HostnamePath == <<"target", "hostname">>
ServicesPath == <<"target", "services">>

\* C2: along a chain of merges a non-empty scalar leaf is never changed and a
\* list leaf keeps its elements in their order; hostname "" merged with
\* "box1" becomes "box1", and a later merge of "other" leaves it "box1".
C2_MergeMonotone ==
    /\ Preserves(mprev, mstate)
    /\ (At(mprev, HostnamePath) = Str("") /\ At(mfrag, HostnamePath) = Str("box1"))
            => At(mstate, HostnamePath) = Str("box1")
    /\ (At(mprev, HostnamePath) = Str("box1") /\ At(mfrag, HostnamePath) = Str("other"))
            => At(mstate, HostnamePath) = Str("box1")

C2_Witness ==
    /\ At(mprev, HostnamePath) = Str("box1")
    /\ At(mfrag, HostnamePath) = Str("other")
    /\ At(mstate, HostnamePath) = Str("box1")
    /\ Len(At(mstate, ServicesPath).v) > 0

\* C3: merging a fragment into the result of merging it changes nothing, for
\* every reachable state and every fragment.
C3_MergeIdempotent ==
    \A f \in Fragments :
        LET once == update_state_with_categories(mstate, f)
        IN  update_state_with_categories(once, f) = once

\* a fragment with a repeated item put a list where the state had ""
C3_Witness ==
    /\ At(mprev, HostnamePath) = Str("")
    /\ At(mfrag, HostnamePath) = List(<<Item2, Item2>>)
    /\ At(mstate, HostnamePath) = List(<<Item2, Item2>>)
    /\ update_state_with_categories(mstate, mfrag) = mstate

\* C4: where the state and the fragment both hold a list, the merged list
\* holds every item of the fragment, an appended item equals no item before
\* it, and merging the same fragment again adds nothing.
C4_ListUnion ==
    \A k \in {"hostname", "services"} :
        LET old == At(mprev, <<"target", k>>)
            fr  == At(mfrag, <<"target", k>>)
            new == At(mstate, <<"target", k>>)
        IN  (IsList(old) /\ IsList(fr)) =>
                /\ IsList(new)
                /\ \A i \in 1..Len(fr.v) : InList(fr.v[i], new.v)
                /\ \A j \in (Len(old.v) + 1)..Len(new.v) :
                        ~InList(new.v[j], SubSeq(new.v, 1, j - 1))
                /\ At(update_state_with_categories(mstate, mfrag),
                      <<"target", k>>) = new

\* services [] merged with [{port: 22}] and then with [{port: 22}] again
C4_Witness ==
    /\ At(mprev, ServicesPath) = List(<<Item1>>)
    /\ At(mfrag, ServicesPath) = List(<<Item1>>)
    /\ At(mstate, ServicesPath) = List(<<Item1>>)

----------------------------------------------------------------------------
(* Calls of the BlackboardAPI within one scenario *)

\* the number of error records and of items of the caller's history
\* followed
MaxLog == 1

\* the new_state arguments of update_state
BBFragments ==
    {Dict([target |-> tf]) :
        tf \in {Str("box1"),
                Dict([hostname |-> Str("box1")]),
                Dict([hostname |-> Str("other")])}}
        \cup {Dict([web_directories_status |-> w]) :
                w \in {Dict([x \in {"200"} |-> Str("/admin")])}}
        \cup {Dict([cpes |-> List(<<Str("cpe1")>>),
                    vulnerabilities_found |-> List(<<Str("cve1")>>)]),
              Dict([actions_history |-> List(<<Str(Action1)>>),
                    errors |-> List(<<>>),
                    target |-> Dict([hostname |-> Str("box1")])]),
              None, List(<<Item1>>)}

Called(op, raised) == [NoCall EXCEPT !.op = op, !.raised = raised]

CalledWith(op, raised, agent, arg) ==
    [op |-> op, raised |-> raised, agent |-> agent, arg |-> arg,
     ok |-> diskOk]

\* a call that ends with _save_to_file unless it raised
Saves(r) == snapshot' = IF r.raised THEN snapshot
                        ELSE save_to_file(r.bb, snapshot, diskOk).file

\* the call raises when its body did or when its _save_to_file does
Ended(r) ==
    r.raised \/ save_to_file(r.bb, snapshot, diskOk).raised

\* a call of the API ends: the blackboard it leaves, the file it leaves when
\* it ends with _save_to_file, and what the caller sees
Finish(op, r, agent, arg, saves) ==
    /\ blackboard' = r.bb
    /\ snapshot' = IF saves /\ ~r.raised
                   THEN save_to_file(r.bb, snapshot, diskOk).file
                   ELSE snapshot
    /\ bbCall' = CalledWith(op, IF saves THEN Ended(r) ELSE r.raised,
                            agent, arg)

\* fill_state(h) with the list h the caller keeps
FillStateCall ==
    /\ Finish("fill_state", Returned(fill_state(blackboard, CallerList)),
              "", ListItems(CallerList), FALSE)
    /\ UNCHANGED <<diskOk, mergeVars, loopVars, agentVars>>

\* the caller appends to its list h
CallerAppend ==
    /\ Len(actions_history) < MaxLog
    /\ actions_history' = Append(actions_history, Action1)
    /\ UNCHANGED <<last_state, last_action, episode_total_reward, cacheVars,
                   epsVars, conf, pc, loc, obs, bbVars, mergeVars, loopVars>>

\* update_state with a name of names and a fragment of fragments
UpdateStateWith(names, fragments) ==
    \E name \in names, f \in fragments :
        /\ Finish("update_state", update_state(blackboard, name, f),
                  name, f, TRUE)
        /\ UNCHANGED <<diskOk, mergeVars, loopVars, agentVars>>

UpdateStateCall == UpdateStateWith(AgentNames, BBFragments)

AppendActionLogCall ==
    \E ts \in Times :
        /\ Finish("append_action_log",
                  Returned(append_action_log(blackboard, Action1, ts)),
                  ReconName, Str(Action1), TRUE)
        /\ UNCHANGED <<diskOk, mergeVars, loopVars, agentVars>>

AddErrorCall ==
    \E ts \in Times :
        /\ Len(Get(blackboard, "errors", List(<<>>)).v) < MaxLog
        /\ Finish("add_error",
                  Returned(add_error(blackboard, ReconName, Action1,
                                     "timeout", ts)),
                  ReconName, Str(Action1), TRUE)
        /\ UNCHANGED <<diskOk, mergeVars, loopVars, agentVars>>

\* the file becomes unwritable, or writable again
DiskChange ==
    /\ diskOk' = ~diskOk
    /\ UNCHANGED <<blackboard, snapshot, bbCall,
                   mergeVars, loopVars, agentVars>>

InitBB == BBStart /\ MergeIdle /\ AgentIdle /\ OrchestratorIdle

NextBB ==
    \/ FillStateCall
    \/ CallerAppend
    \/ UpdateStateCall
    \/ AppendActionLogCall
    \/ AddErrorCall

SpecBB == InitBB /\ [][NextBB]_vars

\* every non-empty scalar of old is unchanged in new and every element of a
\* list of old is an element of the list of new
RECURSIVE OnlyGrows(_, _)
OnlyGrows(old, new) ==
    IF IsDict(old)
    THEN /\ IsDict(new)
         /\ \A k \in DOMAIN old.v :
                k \in DOMAIN new.v /\ OnlyGrows(old.v[k], new.v[k])
    ELSE IF IsList(old)
         THEN IsList(new) /\ \A i \in 1..Len(old.v) : InList(old.v[i], new.v)
         ELSE old \in {Str(""), None} \/ new = old

\* C5: no BlackboardAPI call replaces or removes a non-empty scalar under
\* target, drops an element of a list under target, or drops an entry of
\* web_directories_status.
C5_DurableOnlyGrows ==
    [][/\ HasKey(blackboard, "target") =>
            /\ HasKey(blackboard', "target")
            /\ OnlyGrows(blackboard.v["target"], blackboard'.v["target"])
       /\ HasKey(blackboard, "web_directories_status") =>
            /\ HasKey(blackboard', "web_directories_status")
            /\ \A k \in DOMAIN blackboard.v["web_directories_status"].v :
                   HasKey(blackboard'.v["web_directories_status"], k)]_vars

----------------------------------------------------------------------------
(* Calls of perform_action *)

MaxRuns == 2

\* the caches the constructor is given: empty, or loaded from disk
LoadedCaches == {EmptyCache, [a \in {Action2} |-> "out2"]}

InitExec ==
    /\ BBStart
    /\ OrchestratorIdle
    /\ MergeIdle
    /\ \E c \in LoadedCaches :
           AgentStart(c, EPSILON, DefaultMinEpsilon, DefaultEpsilonDecay)

\* what the caller and the command facility see of one perform_action call
ExecObs(o, action, r) ==
    [o EXCEPT
        !.runs = [@ EXCEPT ![action] = @ + (IF r.executed THEN 1 ELSE 0)],
        !.firstOut = IF action \in DOMAIN @ THEN @
                     ELSE CachePut(@, action, r.output),
        !.call = "perform_action",
        !.action = action,
        !.output = r.output,
        !.executed = r.executed,
        !.failed = r.failed,
        !.command = r.command,
        !.nth = IF action \in DOMAIN o.firstOut THEN 2 ELSE 1]

PerformActionCall ==
    \E action \in Actions, outcome \in CommandOutcomes, ts \in Times :
        LET r == perform_action(command_cache, blackboard, ReconName,
                                action, outcome, ts)
        IN  /\ obs.runs[action] < MaxRuns
            /\ command_cache' = r.cache
            /\ blackboard' = r.bb
            /\ snapshot' = IF r.failed
                           THEN save_to_file(r.bb, snapshot, diskOk).file
                           ELSE snapshot
            /\ obs' = ExecObs(obs, action, r)
            /\ UNCHANGED <<diskOk, bbCall, llm_cache, epsVars, conf, stepVars,
                           pc, loc, mergeVars, loopVars>>

NextExec == PerformActionCall

SpecExec == InitExec /\ [][NextExec]_vars

\* C6: the command facility runs at most once per action string; a call
\* after the first for an action returns the output of the first without
\* running anything; an entry of the CommandCache keeps its value.
C6_CommandRunsOnce ==
    /\ \A a \in Actions : obs.runs[a] <= 1
    /\ \A a \in DOMAIN command_cache :
           a \in DOMAIN obs.firstOut => command_cache[a] = obs.firstOut[a]
    /\ obs.call = "perform_action" =>
           /\ obs.output = obs.firstOut[obs.action]
           /\ obs.nth > 1 => ~obs.executed

\* a second call for an action whose first call ran the command
C6_Witness ==
    /\ obs.call = "perform_action"
    /\ obs.nth > 1
    /\ obs.runs[obs.action] = 1
    /\ obs.output = "out1"

----------------------------------------------------------------------------
(* Calls of parse_output *)

\* the replies of model.run for a leaf
RepliesFor(cat_path) ==
    CASE cat_path = "target::hostname" ->
            {[body |-> <<"w">>, start |-> FALSE],
             [body |-> <<" ", "w", " ">>, start |-> TRUE],
             [body |-> <<"1">>, start |-> TRUE],
             [body |-> <<"[", "1", "]">>, start |-> TRUE]}
      [] cat_path = "target::os::name" ->
            {[body |-> <<"w">>, start |-> TRUE]}
      [] cat_path = "target::services" ->
            {[body |-> <<"[", " ", "1", " ", "]">>, start |-> TRUE],
             [body |-> <<"[", "]">>, start |-> TRUE]}

\* the leaf paths as a set
LeafPaths == {category_paths[i] : i \in 1..Len(category_paths)}

\* str(x) of a str or None
PyStr(x) == IF x.t = "none" THEN "None" ELSE x.v

\* lines 263-335: parse_output starts with no response
ParseBegin(locals, ret) ==
    /\ pc' = "parse"
    /\ loc' = [locals EXCEPT !.idx = 1, !.full_responses = EmptyCache,
                              !.ret = ret]

\* one iteration of the loop of lines 337-359, the reply of model.run being
\* one of replies[cat_path]
ParseLeafWith(replies) ==
    /\ pc = "parse"
    /\ loc.idx <= Len(category_paths)
    /\ LET cat_path == category_paths[loc.idx]
           key == CacheKey(PyStr(last_action), cat_path)
       IN  \E raw \in replies[cat_path] :
               LET r == parse_leaf(llm_cache, PyStr(last_action), cat_path, raw)
               IN  /\ llm_cache' = r.cache
                   /\ loc' = [loc EXCEPT
                                !.idx = @ + 1,
                                !.full_responses =
                                    IF r.used THEN CachePut(@, cat_path, r.response)
                                    ELSE @]
                   /\ obs' = [obs EXCEPT
                                !.call = "parse_leaf",
                                !.key = key,
                                !.cat_path = cat_path,
                                !.stored = key \in DOMAIN llm_cache,
                                !.before = llm_get(llm_cache, key),
                                !.raw = IF r.called THEN raw ELSE NoRaw,
                                !.called = r.called]
    /\ UNCHANGED <<pc, command_cache, epsVars, conf, stepVars, bbVars,
                   mergeVars, loopVars>>

ParseLeaf == ParseLeafWith([cat_path \in LeafPaths |-> RepliesFor(cat_path)])

\* lines 361-363: the responses are joined and the call returns
ParseReturn ==
    /\ pc = "parse"
    /\ loc.idx > Len(category_paths)
    /\ pc' = loc.ret
    /\ loc' = loc
    /\ UNCHANGED <<obs, cacheVars, epsVars, conf, stepVars, bbVars,
                   mergeVars, loopVars>>

\* self.last_action = action (line 113) and a call of parse_output
ParseOutputCall ==
    /\ pc = "idle"
    /\ \E action \in Actions : last_action' = Str(action)
    /\ ParseBegin(NoLocals, "idle")
    /\ UNCHANGED <<obs, cacheVars, epsVars, conf, actions_history, last_state,
                   episode_total_reward, bbVars, mergeVars, loopVars>>

InitParse == BBStart /\ MergeIdle /\ AgentIdle /\ OrchestratorIdle

NextParse ==
    \/ ParseOutputCall
    \/ ParseLeaf
    \/ ParseReturn

SpecParse == InitParse /\ [][NextParse]_vars

\* C7: once a reply is stored under a key, a later parse_output for the pair
\* does not call model.run and leaves the stored value as it is.
C7_ExtractionOncePerPair ==
    (obs.call = "parse_leaf" /\ obs.stored) =>
        /\ ~obs.called
        /\ llm_cache[obs.key] = obs.before

\* C8: on a miss a reply that parses as a JSON list is stored as the parsed
\* list and is the leaf's response; any other reply is stored as its
\* stripped text and is the leaf's response.
C8_MissClassifiedAndUsed ==
    (obs.call = "parse_leaf" /\ obs.called) =>
        LET response == extract_model_response(obs.raw)
            parsed == json_loads(response)
        IN  IF parsed # Invalid /\ IsList(parsed)
            THEN /\ llm_cache[obs.key] = parsed
                 /\ obs.cat_path \in DOMAIN loc.full_responses
            ELSE /\ llm_cache[obs.key] = Str(Text(Strip(response)))
                 /\ obs.cat_path \in DOMAIN loc.full_responses
                 /\ loc.full_responses[obs.cat_path] = Text(Strip(response))

\* ------------------------------------------------------------------------
\* Exploration: choose_action and decay_epsilon (base_agent.py 185-221)

\* the values random.random() is drawn from, in [0, 1)
Rnds == {Rat(0, 1), Rat(1, 2), Rat(99, 100)}

\* the score vectors policy_model.forward is drawn from
QVectors == {<<0, 0>>, <<1, 0>>, <<0, 1>>}

\* the last position holding the maximum
ArgMaxLast(q) ==
    CHOOSE i \in 0..(Len(q) - 1) :
        /\ \A j \in 1..Len(q) : q[j] <= q[i + 1]
        /\ \A j \in (i + 2)..Len(q) : q[j] < q[i + 1]

\* np.argmax: the first position holding the maximum, counted from 0
ArgMax(q) ==
    CHOOSE i \in 0..(Len(q) - 1) :
        /\ \A j \in 1..Len(q) : q[j] <= q[i + 1]
        /\ \A j \in 1..i : q[j] < q[i + 1]

\* lines 211-215: a draw below epsilon takes the random position, any other
\* draw the best scored one; epsilon is read and not assigned
choose_action(catalogue, eps, rnd, rand_index, q_values) ==
    LET explore == RLess(rnd, eps)
        action_index == IF explore THEN rand_index ELSE ArgMax(q_values)
    IN  [action_index |-> action_index,
         action |-> catalogue[action_index + 1],
         branch |-> IF explore THEN "explore" ELSE "exploit",
         epsilon |-> eps]

\* decay_epsilon without the floor
decay_epsilon_nofloor(eps, decay, min_eps) == RMul(eps, decay)

\* line 221
decay_epsilon(eps, decay, min_eps) == RMax(RMul(eps, decay), min_eps)

\* the number of decay_epsilon calls followed
MaxDecays == 3

\* constructor arguments (lines 54-76): any number is accepted
EpsilonInputs == {EPSILON, Rat(1, 50), Rat(1, 100), Rat(1, 200), Rat(-1, 2)}
MinEpsilonInputs == {DefaultMinEpsilon, Rat(0, 1), Rat(-1, 1)}
EpsilonDecayInputs == {Rat(1, 2), Rat(9, 10), Rat(1, 1), Rat(3, 2)}

InitEps ==
    /\ BBStart
    /\ OrchestratorIdle
    /\ MergeIdle
    /\ \E e0 \in EpsilonInputs, m \in MinEpsilonInputs,
          d \in EpsilonDecayInputs : AgentStart(EmptyCache, e0, m, d)

ChooseActionCall ==
    /\ \E rnd \in Rnds, rand_index \in 0..(Len(conf.action_space) - 1),
          q_values \in QVectors :
          LET r == choose_action(conf.action_space, epsilon, rnd,
                                 rand_index, q_values)
          IN  /\ epsilon' = r.epsilon
              /\ obs' = [obs EXCEPT !.call = "choose_action",
                                    !.action = r.action,
                                    !.action_index = r.action_index,
                                    !.branch = r.branch,
                                    !.rnd = rnd,
                                    !.q_values = q_values,
                                    !.rand_index = rand_index,
                                    !.explored =
                                        IF r.branch = "explore"
                                        THEN @ \cup {r.action_index}
                                        ELSE @,
                                    !.epsPrev = epsilon]
    /\ UNCHANGED <<min_epsilon, epsilon_decay, conf, cacheVars, stepVars,
                   pc, loc>>
    /\ UNCHANGED <<mergeVars, loopVars, bbVars>>

DecayEpsilonCall ==
    /\ obs.decays < MaxDecays
    /\ epsilon' = decay_epsilon(epsilon, epsilon_decay, min_epsilon)
    /\ obs' = [obs EXCEPT !.call = "decay_epsilon",
                          !.epsPrev = epsilon,
                          !.decays = @ + 1]
    /\ UNCHANGED <<min_epsilon, epsilon_decay, conf, cacheVars, stepVars,
                   pc, loc>>
    /\ UNCHANGED <<mergeVars, loopVars, bbVars>>

NextEps ==
    \/ ChooseActionCall
    \/ DecayEpsilonCall

SpecEps == InitEps /\ [][NextEps]_vars

Zero == Rat(0, 1)
One == Rat(1, 1)

\* constructor arguments for which [min_epsilon, e0] is a range decay stays in
ValidExploration(e0, min_eps, decay) ==
    /\ RLeq(Zero, e0)
    /\ RLeq(min_eps, e0)
    /\ RLeq(Zero, decay)
    /\ RLeq(decay, One)

\* epsilon is inside [min_epsilon, e0] and not above its previous value
EpsilonInRange ==
    /\ RLeq(min_epsilon, epsilon)
    /\ RLeq(epsilon, obs.eps0)
    /\ RLeq(epsilon, obs.epsPrev)

\* C9 as stated: for every construction with initial value e0 and every
\* sequence of choose_action and decay_epsilon calls, epsilon never increases
\* and min_epsilon <= epsilon <= e0.
C9_EpsilonBoundsAnyInput == EpsilonInRange

\* C9 amended: for a construction with 0 <= e0, min_epsilon <= e0 and
\* 0 <= epsilon_decay <= 1, across every sequence of choose_action and
\* decay_epsilon calls epsilon never increases and
\* min_epsilon <= epsilon <= e0.
C9_EpsilonBounds ==
    ValidExploration(obs.eps0, min_epsilon, epsilon_decay) => EpsilonInRange

\* a decay that lowered epsilon from e0 down to the floor
C9_Witness ==
    /\ ValidExploration(obs.eps0, min_epsilon, epsilon_decay)
    /\ obs.call = "decay_epsilon"
    /\ RLess(epsilon, obs.eps0)
    /\ epsilon = min_epsilon
    /\ RLess(Zero, min_epsilon)

\* ------------------------------------------------------------------------
\* One agent step: BaseAgent.run (base_agent.py 94-183), run by the recon
\* role.  pc is the place in run; loc holds its local variables.

\* the number of steps followed
MaxSteps == 2

\* what the command does when a step runs it
StepOutcomes == {[ok |-> TRUE, out |-> "out1"], [ok |-> FALSE, out |-> "timeout"]}

\* the replies of model.run in a step
StepRepliesFor(cat_path) ==
    CASE cat_path = "target::hostname" ->
            {[body |-> <<" ", "w", " ">>, start |-> TRUE],
             [body |-> <<"w">>, start |-> FALSE]}
      [] cat_path = "target::os::name" ->
            {[body |-> <<"w">>, start |-> TRUE]}
      [] cat_path = "target::services" ->
            {[body |-> <<"[", " ", "1", " ", "]">>, start |-> TRUE]}

\* the total replaced by the reward
accumulate_last(total, reward) == reward

\* line 156: self.episode_total_reward += reward
accumulate(total, reward) == total + reward

\* the values get_reward returns
Rewards == {0, 1}

\* StateEncoder.encode(state, actions_history): a deterministic mapping of
\* its two arguments, kept as the pair it is computed from
encode(state, history) == [state |-> state, history |-> history]

\* lines 99-106: the ephemeral sections are reset and the step takes its
\* copy of the blackboard
RunObserve ==
    /\ pc = "idle"
    /\ Len(actions_history) < MaxSteps
    /\ blackboard' = fill_state(blackboard, list_copy(CallerList))
    /\ last_state' = get_state_for_agent(blackboard').val
    /\ bbCall' = Called("fill_state", FALSE)
    /\ pc' = "select"
    /\ loc' = [NoLocals EXCEPT
                  !.encoded_state = encode(last_state', actions_history)]
    /\ obs' = [obs EXCEPT !.call = "observe", !.observed = blackboard']
    /\ UNCHANGED <<snapshot, diskOk, cacheVars, epsVars, conf, actions_history,
                   last_action, episode_total_reward, mergeVars, loopVars>>

\* lines 112-113
RunChooseAction ==
    /\ pc = "select"
    /\ \E rnd \in Rnds, rand_index \in 0..(Len(conf.action_space) - 1),
          q_values \in QVectors :
          LET r == choose_action(conf.action_space, epsilon, rnd,
                                 rand_index, q_values)
          IN  /\ epsilon' = r.epsilon
              /\ last_action' = Str(r.action)
              /\ loc' = [loc EXCEPT !.action = r.action]
              /\ obs' = [obs EXCEPT !.call = "choose_action",
                                    !.action = r.action,
                                    !.action_index = r.action_index,
                                    !.branch = r.branch,
                                    !.epsPrev = epsilon]
    /\ pc' = "execute"
    /\ UNCHANGED <<min_epsilon, epsilon_decay, conf, cacheVars,
                   actions_history,
                   last_state, episode_total_reward, bbVars,
                   mergeVars, loopVars>>

\* lines 120 and 137: the command is run or its output recalled, and
\* parse_output is entered with the output
RunPerformAction ==
    /\ pc = "execute"
    /\ \E outcome \in StepOutcomes, ts \in Times :
          LET r == perform_action(command_cache, blackboard, conf.name,
                                  loc.action, outcome, ts)
          IN  /\ command_cache' = r.cache
              /\ blackboard' = r.bb
              /\ snapshot' = IF r.failed
                             THEN save_to_file(r.bb, snapshot, diskOk).file
                             ELSE snapshot
              /\ bbCall' = IF r.failed THEN Called("add_error", FALSE)
                           ELSE bbCall
              /\ obs' = ExecObs(obs, loc.action, r)
              /\ ParseBegin([loc EXCEPT !.result = r.output], "merge")
    /\ UNCHANGED <<diskOk, llm_cache, epsVars, conf, stepVars,
                   mergeVars, loopVars>>

RunParseLeaf ==
    ParseLeafWith([cat_path \in LeafPaths |-> StepRepliesFor(cat_path)])

\* clean_state(state, template): the state brought to the keys of the
\* template at every depth, a key it lacks taking the value of the template
RECURSIVE clean_state(_, _)
clean_state(state, template) ==
    IF IsDict(template)
    THEN Dict([k \in DOMAIN template.v |->
                 IF IsDict(state) /\ k \in DOMAIN state.v
                 THEN clean_state(state.v[k], template.v[k])
                 ELSE template.v[k]])
    ELSE state

\* sort_state(state): the keys put in order; a Dict holds no order
sort_state(state) == state

\* lines 422-444
check_state(current_state) ==
    sort_state(clean_state(current_state, initialize_blackboard))

\* lines 142-145: the extraction cache is read under the action alone, the
\* merge is taken over the observed state, and the value check_state
\* returns is dropped
RunMerge ==
    /\ pc = "merge"
    /\ LET new_info == update_state_with_categories(
                           last_state, llm_get(llm_cache, loc.action))
       IN  /\ loc' = [loc EXCEPT !.new_info = new_info]
           /\ obs' = [obs EXCEPT !.call = "merge",
                                 !.checked = check_state(new_info)]
    /\ pc' = "commit"
    /\ UNCHANGED <<cacheVars, epsVars, conf, stepVars, bbVars,
                   mergeVars, loopVars>>

\* line 148
RunCommit ==
    /\ pc = "commit"
    /\ LET r == update_state(blackboard, conf.name, loc.new_info)
       IN  /\ blackboard' = r.bb
           /\ Saves(r)
           /\ bbCall' = Called("update_state", Ended(r))
           /\ loc' = [loc EXCEPT !.raised = Ended(r)]
           /\ pc' = IF Ended(r) THEN "idle" ELSE "reward"
    /\ obs' = [obs EXCEPT !.call = "commit", !.committed = blackboard']
    /\ UNCHANGED <<diskOk, cacheVars, epsVars, conf, stepVars,
                   mergeVars, loopVars>>

\* RunReward with the state of line 103 taken for the next state
RunRewardStale ==
    /\ pc = "reward"
    /\ \E reward \in Rewards :
          /\ loc' = [loc EXCEPT
                        !.next_state = last_state,
                        !.encoded_next_state =
                            encode(last_state, actions_history),
                        !.reward = reward]
          /\ episode_total_reward' = accumulate(episode_total_reward, reward)
          /\ obs' = [obs EXCEPT !.call = "reward",
                                !.rewards = Append(@, reward)]
    /\ pc' = "history"
    /\ UNCHANGED <<actions_history, last_state, last_action, cacheVars,
                   epsVars, conf, bbVars, mergeVars, loopVars>>

\* lines 151-156: the next state is observed and encoded, and the reward
\* is added to the episode total
RunReward ==
    /\ pc = "reward"
    /\ LET next_state == get_state_for_agent(blackboard).val
       IN  \E reward \in Rewards :
              /\ loc' = [loc EXCEPT
                            !.next_state = next_state,
                            !.encoded_next_state =
                                encode(next_state, actions_history),
                            !.reward = reward]
              /\ episode_total_reward' =
                     accumulate(episode_total_reward, reward)
              /\ obs' = [obs EXCEPT !.call = "reward",
                                    !.rewards = Append(@, reward)]
    /\ pc' = "history"
    /\ UNCHANGED <<actions_history, last_state, last_action, cacheVars,
                   epsVars, conf, bbVars, mergeVars, loopVars>>

\* line 159
RunAppendHistory ==
    /\ pc = "history"
    /\ actions_history' = Append(actions_history, loc.action)
    /\ pc' = "learn"
    /\ obs' = [obs EXCEPT !.call = "history"]
    /\ UNCHANGED <<loc, last_state, last_action, episode_total_reward,
                   cacheVars, epsVars, conf, bbVars, mergeVars, loopVars>>

\* list.index: the first position holding x, counted from 0
ListIndex(q, x) ==
    CHOOSE i \in 0..(Len(q) - 1) :
        /\ q[i + 1] = x
        /\ \A j \in 1..i : q[j] # x

\* lines 161-166 and 174: the action of an experience is the position
\* action_space.index(action) gives for the action string
Experience(catalogue, encoded_state, action, reward, encoded_next_state) ==
    [state |-> encoded_state,
     action |-> ListIndex(catalogue, action),
     reward |-> reward,
     next_state |-> encoded_next_state]

\* line 176: the arguments of replay_buffer.add_experience
ReplayTuple(catalogue, encoded_state, action, reward, encoded_next_state) ==
    [state |-> encoded_state,
     action |-> ListIndex(catalogue, action),
     reward |-> reward,
     next_state |-> encoded_next_state,
     done |-> FALSE]

\* RunLearn without the test of line 175
RunLearnAlways ==
    /\ pc = "learn"
    /\ pc' = "log"
    /\ obs' = [obs EXCEPT
                  !.call = "learn",
                  !.experience =
                      Experience(conf.action_space, loc.encoded_state,
                                 loc.action, loc.reward,
                                 loc.encoded_next_state),
                  !.updates = @ + 1,
                  !.replay =
                      ReplayTuple(conf.action_space, loc.encoded_state,
                                  loc.action, loc.reward,
                                  loc.encoded_next_state),
                  !.adds = @ + 1]
    /\ UNCHANGED <<loc, cacheVars, epsVars, conf, stepVars, bbVars,
                   mergeVars, loopVars>>

\* lines 161-176: the experience goes to the policy model and, when the
\* agent has a replay buffer, its values go to the buffer; both keep their
\* own state
RunLearn ==
    /\ pc = "learn"
    /\ pc' = "log"
    /\ LET buffered == conf.replay_buffer # None
       IN  obs' = [obs EXCEPT
                     !.call = "learn",
                     !.experience =
                         Experience(conf.action_space, loc.encoded_state,
                                    loc.action, loc.reward,
                                    loc.encoded_next_state),
                     !.updates = @ + 1,
                     !.replay =
                         IF buffered
                         THEN ReplayTuple(conf.action_space,
                                          loc.encoded_state, loc.action,
                                          loc.reward, loc.encoded_next_state)
                         ELSE @,
                     !.adds = IF buffered THEN @ + 1 ELSE @]
    /\ UNCHANGED <<loc, cacheVars, epsVars, conf, stepVars, bbVars,
                   mergeVars, loopVars>>

\* lines 177-183, and the return of run
RunLog ==
    /\ pc = "log"
    /\ \E ts \in Times :
          LET r == Returned(append_action_log(blackboard, loc.action, ts))
          IN  /\ blackboard' = r.bb
              /\ Saves(r)
    /\ bbCall' = Called("append_action_log", FALSE)
    /\ pc' = "idle"
    /\ loc' = NoLocals
    /\ obs' = [obs EXCEPT !.call = "log", !.steps = @ + 1]
    /\ UNCHANGED <<diskOk, cacheVars, epsVars, conf, stepVars,
                   mergeVars, loopVars>>

\* the agents a step is followed for: the recon agent over the catalogue of
\* the scenario, with and without a replay buffer, and over a catalogue that
\* holds one action string twice, and the exploitation agent
StepAgents ==
    {[action_space |-> action_space, name |-> ReconName,
      replay_buffer |-> ReplayBufferObject],
     [action_space |-> action_space, name |-> ReconName,
      replay_buffer |-> None],
     [action_space |-> <<Action1, Action1>>, name |-> ReconName,
      replay_buffer |-> ReplayBufferObject],
     [action_space |-> action_space, name |-> "ExploitAgent",
      replay_buffer |-> ReplayBufferObject]}

InitStep ==
    /\ BBStart
    /\ OrchestratorIdle
    /\ MergeIdle
    /\ \E a \in StepAgents :
          AgentStartAs(a.name, a.action_space, a.replay_buffer, EmptyCache,
                       EPSILON,
                       DefaultMinEpsilon, DefaultEpsilonDecay)

NextStep ==
    \/ RunObserve
    \/ RunChooseAction
    \/ RunPerformAction
    \/ RunParseLeaf
    \/ ParseReturn
    \/ RunMerge
    \/ RunCommit
    \/ RunReward
    \/ RunAppendHistory
    \/ RunLearn
    \/ RunLog

SpecStep == InitStep /\ [][NextStep]_vars

\* "::".join of the keys of a path (extract_paths)
RECURSIVE JoinKeys(_)
JoinKeys(keys) ==
    IF Len(keys) = 1 THEN keys[1]
    ELSE keys[1] \o "::" \o JoinKeys(Tail(keys))

\* the keys of a leaf path of the template
KeysOf(cat_path) ==
    CHOOSE keys \in UNION {[1..n -> {KeyOrder[i] : i \in 1..Len(KeyOrder)}] :
                            n \in 1..3} :
        JoinKeys(keys) = cat_path

\* what parse_output holds for the leaf after the extraction of the step
Extracted(cat_path) == llm_get(llm_cache, CacheKey(loc.action, cat_path))

\* the blackboard holds at the leaf what the step extracted for it
CommittedAt(cat_path) ==
    LET v == Extracted(cat_path)
        was == At(last_state, KeysOf(cat_path))
        now == At(blackboard, KeysOf(cat_path))
    IN  /\ (v.t = "str" /\ v.v # "" /\ was \in {Str(""), None}) => now = v
        /\ (IsList(v) /\ v.v # <<>> /\ IsList(was)) =>
               /\ IsList(now)
               /\ \A j \in 1..Len(v.v) : InList(v.v[j], now.v)

\* C1: in a step of the recon role, when parse_output obtained a non-empty
\* value for a leaf path under target and the observed blackboard value at the
\* path was empty, the blackboard holds the value at the path after the
\* commit (a list leaf holds the extracted items).
C1_ExtractedValueCommitted ==
    (pc = "reward" /\ ~loc.raised) =>
        \A i \in 1..Len(category_paths) : CommittedAt(category_paths[i])

\* C10: a choose_action that takes the exploring branch leaves epsilon at
\* max(epsilon * epsilon_decay, min_epsilon); a choose_action that takes the
\* other branch, and every other operation of a step, leaves epsilon as it is.
C10_ExploreDecaysEpsilon ==
    [][IF pc = "select" /\ pc' = "execute" /\ obs'.branch = "explore"
       THEN epsilon' = decay_epsilon(epsilon, epsilon_decay, min_epsilon)
       ELSE epsilon' = epsilon]_vars

\* C11: in every step, for every catalogue (one holding the same action
\* string at two positions included), the action index of the experience
\* given to policy_model.update and to the replay buffer is the catalogue
\* position choose_action selected in the step.
C11_ExperienceIndexIsSelected ==
    pc = "log" =>
        /\ obs.experience.action = obs.action_index
        /\ conf.replay_buffer # None => obs.replay.action = obs.action_index

\* ------------------------------------------------------------------------
\* Properties of the BlackboardAPI calls (SpecBB)

\* a fragment that is no mapping, or a name that is neither role
BadUpdate(agent, arg) ==
    ~IsDict(arg) \/ Lower(agent) \notin {"reconagent", "vulnagent"}

\* C12: update_state with a fragment that is not a mapping, or with a name
\* that is neither the recon nor the vulnerability role whatever its case,
\* raises, leaves the blackboard as it was and writes no snapshot.
C12_BadUpdateRaises ==
    [][(bbCall'.op = "update_state"
            /\ BadUpdate(bbCall'.agent, bbCall'.arg)) =>
           /\ bbCall'.raised
           /\ blackboard' = blackboard
           /\ snapshot' = snapshot]_vars

\* the exploitation agent commits a mapping with a target
C12_Witness ==
    /\ bbCall.op = "update_state"
    /\ bbCall.agent = "ExploitAgent"
    /\ IsDict(bbCall.arg) /\ HasKey(bbCall.arg, "target")
    /\ bbCall.raised

\* the top-level keys a role may write
RoleKeys(agent) ==
    IF Lower(agent) = "reconagent" THEN {"target", "web_directories_status"}
    ELSE IF Lower(agent) = "vulnagent" THEN {"cpes", "vulnerabilities_found"}
         ELSE {}

\* old and new hold the same keys with the same values, keys aside
SameOutside(old, new, keys) ==
    \A k \in (DOMAIN old.v \cup DOMAIN new.v) \ keys :
        /\ k \in DOMAIN old.v
        /\ k \in DOMAIN new.v
        /\ old.v[k] = new.v[k]

\* C13: update_state by the recon role changes at most target and
\* web_directories_status, by the vulnerability role at most cpes and
\* vulnerabilities_found; every other top-level key is as it was, whatever
\* keys the fragment holds.
C13_RoleWhitelist ==
    [][(bbCall'.op = "update_state"
            /\ Lower(bbCall'.agent) \in {"reconagent", "vulnagent"}) =>
           SameOutside(blackboard, blackboard', RoleKeys(bbCall'.agent))]_vars

\* the recon role commits a fragment that also holds an actions_history other
\* than the one of the blackboard
C13_Witness ==
    /\ bbCall.op = "update_state"
    /\ Lower(bbCall.agent) = "reconagent"
    /\ ~bbCall.raised
    /\ IsDict(bbCall.arg) /\ HasKey(bbCall.arg, "actions_history")
    /\ HasKey(blackboard, "actions_history")
    /\ blackboard.v["actions_history"] # bbCall.arg.v["actions_history"]
    /\ At(blackboard, HostnamePath) = Str("box1")

EphemeralKeys == {"actions_history", "cpes", "vulnerabilities_found"}

\* C14: fill_state(h) sets actions_history to a copy of h and cpes and
\* vulnerabilities_found to empty lists and leaves every other key as it
\* was; an append to h after the call does not change the actions_history
\* of the blackboard.
C14_FillStateFrame ==
    /\ [](bbCall.op = "fill_state" =>
            /\ ListItems(blackboard.v["actions_history"]) = bbCall.arg
            /\ blackboard.v["cpes"] = List(<<>>)
            /\ blackboard.v["vulnerabilities_found"] = List(<<>>))
    /\ [][bbCall'.op = "fill_state" =>
            SameOutside(blackboard, blackboard', EphemeralKeys)]_vars

\* the caller appended to h after fill_state(h), on a blackboard with errors
C14_Witness ==
    /\ bbCall.op = "fill_state"
    /\ ListItems(CallerList) # bbCall.arg
    /\ HasKey(blackboard, "errors")

\* C16: after every call that changes the blackboard, the write being
\* possible, the file holds the whole blackboard.
C16_SnapshotIsBlackboard ==
    [][(blackboard' # blackboard /\ ~bbCall'.raised /\ bbCall'.ok) =>
           snapshot' = blackboard']_vars

\* ------------------------------------------------------------------------
\* Calls of the BlackboardAPI with a file that cannot always be written

DiskFragments ==
    {Dict([target |-> Dict([hostname |-> Str("box1")])]),
     Dict([target |-> Dict([hostname |-> Str("other")])]),
     Dict([cpes |-> List(<<Str("cpe1")>>)]),
     None}

DiskUpdateStateCall ==
    UpdateStateWith({ReconName, "VulnAgent", "ExploitAgent"}, DiskFragments)

InitDisk == BBStart /\ MergeIdle /\ AgentIdle /\ OrchestratorIdle

NextDisk ==
    \/ DiskUpdateStateCall
    \/ AppendActionLogCall
    \/ AddErrorCall
    \/ DiskChange

SpecDisk == InitDisk /\ [][NextDisk]_vars

ErrorsOf(bb) == Get(bb, "errors", List(<<>>)).v

\* C17: when the file cannot be written, a call that ends with the write
\* returns as it does with a writable file, not raising on account of the
\* write, and the blackboard holds what the call did to it.
C17_WriteFailureKeepsMemory ==
    [][(~diskOk /\ diskOk' = diskOk) =>
           /\ bbCall'.op = "update_state" =>
                LET r == update_state(blackboard, bbCall'.agent, bbCall'.arg)
                IN  /\ bbCall'.raised = r.raised
                    /\ blackboard' = r.bb
                    /\ snapshot' = snapshot
           /\ bbCall'.op = "add_error" =>
                /\ ~bbCall'.raised
                /\ Len(ErrorsOf(blackboard')) = Len(ErrorsOf(blackboard)) + 1
                /\ snapshot' = snapshot
           /\ bbCall'.op = "append_action_log" =>
                /\ ~bbCall'.raised
                /\ blackboard' = blackboard
                /\ snapshot' = snapshot]_vars

\* update_state by the recon role set the hostname while the file could not
\* be written
C17_Witness ==
    /\ bbCall.op = "update_state"
    /\ ~bbCall.ok
    /\ ~bbCall.raised
    /\ At(blackboard, HostnamePath) = Str("box1")
    /\ At(snapshot, HostnamePath) = Str("")

\* ------------------------------------------------------------------------
\* A caller that takes its state with get_state_for_agent and writes to it

\* x with val assigned at path
RECURSIVE SetAt(_, _, _)
SetAt(x, path, val) ==
    IF Len(path) = 1 THEN SetKey(x, path[1], val)
    ELSE SetKey(x, path[1], SetAt(x.v[path[1]], Tail(path), val))

\* whether an assignment at path in the copy is one to an object of the
\* blackboard
WritesThrough(c, path) ==
    \/ c.share = "all"
    \/ c.share = "nested" /\ Len(path) > 1

\* the places the caller writes to, one at each depth
MutPaths == {<<"note">>, HostnamePath, <<"target", "os", "name">>}

CopyFragments ==
    {Dict([target |-> Dict([hostname |-> Str("box1")])]),
     Dict([target |-> Dict([os |-> Dict([name |-> Str("linux")])])])}

GetStateCall ==
    /\ loc' = [loc EXCEPT !.state = get_state_for_agent(blackboard)]
    /\ obs' = [obs EXCEPT !.call = "get_state_for_agent",
                          !.expect = blackboard,
                          !.muts = 0]
    /\ UNCHANGED <<cacheVars, epsVars, conf, stepVars, pc, bbVars,
                   mergeVars, loopVars>>

\* the caller assigns "x" at a place of the state it took
CallerMutate ==
    /\ IsDict(loc.state.val)
    /\ \E path \in MutPaths :
          /\ At(obs.expect, path) # Str("x")
          /\ loc' = [loc EXCEPT !.state.val =
                        IF WritesThrough(loc.state, path) THEN @
                        ELSE SetAt(@, path, Str("x"))]
          /\ blackboard' = IF WritesThrough(loc.state, path)
                           THEN SetAt(blackboard, path, Str("x"))
                           ELSE blackboard
          /\ obs' = [obs EXCEPT !.call = "caller_mutate",
                                !.expect = SetAt(@, path, Str("x")),
                                !.muts = @ + 1]
    /\ UNCHANGED <<cacheVars, epsVars, conf, stepVars, pc, snapshot, diskOk,
                   bbCall, mergeVars, loopVars>>

CopyUpdateStateCall == UpdateStateWith({ReconName}, CopyFragments)

InitCopy == BBStart /\ MergeIdle /\ AgentIdle /\ OrchestratorIdle

NextCopy ==
    \/ GetStateCall
    \/ CallerMutate
    \/ CopyUpdateStateCall
    \/ FillStateCall
    \/ AddErrorCall

SpecCopy == InitCopy /\ [][NextCopy]_vars

\* C15: get_state_for_agent gives a deep copy: an assignment in the value
\* it gave, at any depth, does not change the blackboard, and a later change
\* of the blackboard does not change a value given earlier.
C15_StateIsIsolated ==
    /\ [][obs'.muts # obs.muts => blackboard' = blackboard]_vars
    /\ [](IsDict(loc.state.val) =>
            ReadCopy(loc.state, blackboard) = obs.expect)

\* the caller wrote at the third depth of its state and update_state then
\* set the hostname of the blackboard
C15_Witness ==
    /\ IsDict(loc.state.val)
    /\ At(obs.expect, <<"target", "os", "name">>) = Str("x")
    /\ At(obs.expect, HostnamePath) = Str("")
    /\ At(blackboard, HostnamePath) = Str("box1")
    /\ At(blackboard, <<"target", "os", "name">>) = Str("")

\* ------------------------------------------------------------------------
\* Properties of a step on failures (SpecStep)

\* the stages of a step after perform_action
\* ------------------------------------------------------------------------
\* The scenario loop: ScenarioOrchestrator.run_scenario_loop
\* (scenario_orchestrator.py 93-100).  lpc is the place in the loop: "new"
\* before a call, "while" at the test of line 98, "step" at line 99, "end" at
\* line 100 and "returned" after the call.

\* config.py line 12
MAX_STEPS_PER_EPISODE == 12

\* the number of run_scenario_loop calls followed
MaxLoops == 2

\* the stop conditions handed to __init__ (line 30): callables that read the
\* blackboard dict
condition(name, bb) ==
    CASE name = "hostname_known" ->
            At(bb, <<"target", "hostname">>) \notin {Str(""), Absent}
      [] name = "vulnerabilities_found" ->
            Get(bb, "vulnerabilities_found", List(<<>>)) # List(<<>>)

StopConditionLists ==
    {<<>>, <<"hostname_known">>, <<"vulnerabilities_found">>,
     <<"hostname_known", "vulnerabilities_found">>}

\* lines 62-65: some condition returns true for the blackboard
ConditionMet(conditions, bb) ==
    \E i \in 1..Len(conditions) : condition(conditions[i], bb)

\* should_continue without the loop over the stop conditions
should_continue_unconditioned(is_active, step, conditions, bb) ==
    IF ~is_active THEN FALSE
    ELSE IF step >= MAX_STEPS_PER_EPISODE THEN FALSE
    ELSE TRUE

\* should_continue without the test of the step counter
should_continue_unbounded(is_active, step, conditions, bb) ==
    IF ~is_active THEN FALSE
    ELSE IF ConditionMet(conditions, bb) THEN FALSE
    ELSE TRUE

\* lines 48-67
should_continue(is_active, step, conditions, bb) ==
    IF ~is_active THEN FALSE
    ELSE IF step >= MAX_STEPS_PER_EPISODE THEN FALSE
    ELSE IF ConditionMet(conditions, bb) THEN FALSE
    ELSE TRUE

\* what the agents of a step find
ReconFindings == {Dict([target |-> Dict([hostname |-> Str("box1")])])}
VulnFindings == {Dict([cpes |-> List(<<Str("cpe1")>>),
                       vulnerabilities_found |-> List(<<Str("cve1")>>)])}

\* an AgentManager step: the agent of the role commits what it found, or
\* finds nothing
ManagerStep(agent, findings) ==
    \/ UNCHANGED <<blackboard, snapshot, bbCall>>
    \/ \E f \in findings :
          Finish("update_state", update_state(blackboard, agent, f),
                 agent, f, TRUE)

run_recon_only_step == ManagerStep(ReconName, ReconFindings)
run_vuln_and_exploit_step == ManagerStep("VulnAgent", VulnFindings)

\* lines 97 and 34-46: start() is entered by run_scenario_loop
StartCall ==
    /\ lpc \in {"new", "returned"}
    /\ trail.loops < MaxLoops
    /\ current_step' = 0
    /\ active' = TRUE
    /\ blackboard' = initialize_blackboard
    /\ lpc' = "while"
    /\ trail' = [steps |-> <<>>, stopped |-> FALSE, loops |-> trail.loops + 1]
    /\ UNCHANGED <<stop_conditions, snapshot, diskOk, bbCall, mergeVars,
                   agentVars>>

\* line 98
ShouldContinueCall ==
    /\ lpc = "while"
    /\ lpc' = IF should_continue(active, current_step, stop_conditions,
                                 blackboard)
              THEN "step" ELSE "end"
    /\ trail' = [trail EXCEPT
                    !.stopped =
                        \/ @
                        \/ /\ active
                           /\ current_step < MAX_STEPS_PER_EPISODE
                           /\ ConditionMet(stop_conditions, blackboard)]
    /\ UNCHANGED <<current_step, active, stop_conditions, bbVars, mergeVars,
                   agentVars>>

\* lines 99 and 76-84
StepCall ==
    /\ lpc = "step"
    /\ IF current_step < 10
       THEN /\ run_recon_only_step
            /\ trail' = [trail EXCEPT !.steps = Append(@, "recon")]
       ELSE /\ run_vuln_and_exploit_step
            /\ trail' = [trail EXCEPT !.steps = Append(@, "vuln_and_exploit")]
    /\ current_step' = current_step + 1
    /\ lpc' = "while"
    /\ UNCHANGED <<active, stop_conditions, diskOk, mergeVars, agentVars>>

\* lines 100 and 86-91
EndCall ==
    /\ lpc = "end"
    /\ active' = FALSE
    /\ lpc' = "returned"
    /\ UNCHANGED <<current_step, stop_conditions, trail, bbVars, mergeVars,
                   agentVars>>

InitLoop ==
    /\ BBStart
    /\ MergeIdle
    /\ AgentIdle
    /\ \E conditions \in StopConditionLists : OrchestratorNew(conditions)

NextLoop ==
    \/ StartCall
    \/ ShouldContinueCall
    \/ StepCall
    \/ EndCall

SpecLoop == InitLoop /\ [][NextLoop]_vars

\* the statements of a run_scenario_loop call in progress are executed: the
\* test, the step and end() each return
SpecLoopFair ==
    /\ SpecLoop
    /\ WF_vars(ShouldContinueCall)
    /\ WF_vars(StepCall)
    /\ WF_vars(EndCall)

\* C28: run_scenario_loop terminates when every step returns: current_step
\* starts at 0, increases by exactly one per step, never exceeds
\* MAX_STEPS_PER_EPISODE, at most that many steps are run, and the scenario
\* is inactive when the loop returns.
C28_LoopTerminates ==
    /\ [](/\ current_step \in 0..MAX_STEPS_PER_EPISODE
          /\ Len(trail.steps) <= MAX_STEPS_PER_EPISODE
          /\ lpc # "new" => Len(trail.steps) = current_step
          /\ lpc = "returned" => ~active)
    /\ [][/\ lpc = "step" => current_step' = current_step + 1
          /\ lpc \in {"new", "returned"} => current_step' = 0
          /\ lpc \in {"while", "end"} => current_step' = current_step]_vars
    /\ (lpc = "while") ~> (lpc = "returned")

\* a loop without stop conditions has returned after twelve steps
C28_Witness ==
    /\ lpc = "returned"
    /\ stop_conditions = <<>>
    /\ current_step = MAX_STEPS_PER_EPISODE
    /\ Len(trail.steps) = MAX_STEPS_PER_EPISODE
    /\ ~active

\* C29: the stop conditions are enforced before every step: no step is run
\* in a state where the scenario is inactive or where some stop condition
\* returns true for the current blackboard, and once a stop condition has
\* returned true no further step of that scenario runs.
C29_StopBeforeStep ==
    /\ [](lpc = "step" =>
             /\ active
             /\ ~ConditionMet(stop_conditions, blackboard)
             /\ ~trail.stopped)
    /\ [][trail'.steps # trail.steps /\ trail'.loops = trail.loops =>
             /\ active
             /\ ~ConditionMet(stop_conditions, blackboard)
             /\ ~trail.stopped]_vars

\* a step made the hostname known, the condition returned true at the next
\* test and the loop returned after that one step
C29_Witness ==
    /\ lpc = "returned"
    /\ stop_conditions = <<"hostname_known">>
    /\ trail.stopped
    /\ ConditionMet(stop_conditions, blackboard)
    /\ trail.steps = <<"recon">>
    /\ current_step = 1

\* the number of steps of a kind among the steps asked for
CountOf(kind, steps) ==
    Cardinality({i \in 1..Len(steps) : steps[i] = kind})

\* C30: in a scenario run that no stop condition interrupts, the first 10
\* steps run only the recon step and the vulnerability-and-exploit step is
\* run exactly once.
C30_VulnStepOnce ==
    (lpc = "returned" /\ ~trail.stopped) =>
        /\ \A i \in 1..10 : trail.steps[i] = "recon"
        /\ CountOf("vuln_and_exploit", trail.steps) = 1

\* ------------------------------------------------------------------------
\* extract_paths (base_agent.py 272-307) over templates of up to three
\* levels of mappings whose values are scalars, lists and mappings

\* the values that are no mapping, and the values of a key
ScalarLeaves == {Str(""), None}
ListLeaves == {List(<<>>), List(<<ServicePlaceholder>>)}
TemplateLeaves == ScalarLeaves \cup ListLeaves \cup {EmptyDict}

OsTemplates == {DictOf([name |-> n]) : n \in TemplateLeaves \cup {Absent}}

TargetTemplates ==
    {DictOf([hostname |-> h, os |-> o, services |-> sv]) :
        h \in TemplateLeaves \cup {Absent},
        o \in OsTemplates \cup ScalarLeaves \cup ListLeaves \cup {Absent},
        sv \in ListLeaves \cup {Absent}}

PathTemplates ==
    TargetTemplates \cup {Dict([target |-> t]) : t \in TargetTemplates}

\* one call extract_paths(d, include_brackets=b)
ExtractPathsCall ==
    /\ \E d \in PathTemplates, b \in BOOLEAN :
          loc' = [loc EXCEPT !.d = d, !.include_brackets = b,
                             !.paths = extract_paths(d, "", b)]
    /\ obs' = [obs EXCEPT !.call = "extract_paths"]
    /\ UNCHANGED <<cacheVars, epsVars, stepVars, conf, pc, bbVars,
                   mergeVars, loopVars>>

InitPaths == BBStart /\ MergeIdle /\ AgentIdle /\ OrchestratorIdle

NextPaths == ExtractPathsCall

SpecPaths == InitPaths /\ [][NextPaths]_vars

\* the key paths of d that lead through mappings to a value that is
\* no mapping
KeyPaths == SeqsUpTo({KeyOrder[i] : i \in 1..Len(KeyOrder)}, 3) \ {<<>>}
LeafKeyPaths(d) ==
    {p \in KeyPaths : At(d, p) # Absent /\ ~IsDict(At(d, p))}

\* the place of a key in the order of the template, and the order of two
\* key paths by their first differing key
KeyPlace(k) == CHOOSE i \in 1..Len(KeyOrder) : KeyOrder[i] = k
ComesBefore(p, q) ==
    \E i \in 1..Len(p) :
        /\ i <= Len(q)
        /\ SubSeq(p, 1, i - 1) = SubSeq(q, 1, i - 1)
        /\ KeyPlace(p[i]) < KeyPlace(q[i])

\* the path string of a key path of d
PathString(d, p, brackets) ==
    IF IsList(At(d, p)) /\ brackets THEN JoinKeys(p) \o "[]" ELSE JoinKeys(p)

\* C27: extract_paths(template) returns exactly one path for every scalar
\* or list value reachable through nested mappings of the template, in the
\* key order of the template and joined by '::'; it does not descend into
\* list elements, and a list path ends in '[]' exactly when include_brackets
\* is true.
C27_OnePathPerLeaf ==
    obs.call = "extract_paths" =>
        LET leaves == LeafKeyPaths(loc.d)
        IN  /\ Len(loc.paths) = Cardinality(leaves)
            /\ \E order \in [1..Len(loc.paths) -> leaves] :
                  /\ \A i, j \in 1..Len(loc.paths) :
                        i < j => ComesBefore(order[i], order[j])
                  /\ \A i \in 1..Len(loc.paths) :
                        loc.paths[i] =
                            PathString(loc.d, order[i], loc.include_brackets)

\* the paths of the template of config.py with the list suffix asked for
C27_Witness ==
    /\ obs.call = "extract_paths"
    /\ loc.d = DEFAULT_STATE_STRUCTURE
    /\ loc.include_brackets
    /\ loc.paths = <<"target::hostname", "target::os::name",
                     "target::services[]">>

\* ------------------------------------------------------------------------
\* The selection of an action (base_agent.py 185-215).  obs keeps the scores
\* and the random position of the last call, and the positions the exploring
\* branch has chosen so far.

\* the positions of the catalogue, counted from 0
CatalogueIndices == 0..(Len(conf.action_space) - 1)

\* C24: choose_action returns an element of the action catalogue; on the
\* exploitation branch it is the action at the lowest index among those of
\* the maximal score, and on the exploring branch every index of the
\* catalogue can be chosen.
C24_ChooseActionInCatalogue ==
    /\ obs.call = "choose_action" =>
          /\ obs.action_index \in CatalogueIndices
          /\ obs.action = conf.action_space[obs.action_index + 1]
          /\ obs.branch = "exploit" =>
                /\ ~RLess(obs.rnd, epsilon)
                /\ \A j \in CatalogueIndices :
                      /\ obs.q_values[j + 1] <= obs.q_values[obs.action_index + 1]
                      /\ j < obs.action_index =>
                            obs.q_values[j + 1] < obs.q_values[obs.action_index + 1]
          /\ obs.branch = "explore" =>
                /\ RLess(obs.rnd, epsilon)
                /\ obs.action_index = obs.rand_index
    /\ RLess(Zero, epsilon) =>
          \A i \in CatalogueIndices :
              ENABLED (ChooseActionCall /\ obs'.branch = "explore"
                                        /\ obs'.action_index = i)

\* the exploring branch has chosen every position, and the last call took
\* the exploitation branch over two equal scores
C24_Witness ==
    /\ obs.call = "choose_action"
    /\ obs.explored = CatalogueIndices
    /\ obs.branch = "exploit"
    /\ obs.q_values = <<0, 0>>
    /\ obs.action_index = 0
    /\ obs.action = Action1

\* ------------------------------------------------------------------------
\* The action log (api.py 41-50 and 86-100)

\* C22: append_action_log appends the entry to the action log of the
\* blackboard: the log grows by exactly one record, the earlier records are
\* kept, and get_last_actions(agent, 1) then returns the entry of the call.
C22_LogGrowsByOne ==
    [][bbCall'.op = "append_action_log" =>
          LET old == ActionsLog(blackboard)
              new == ActionsLog(blackboard')
              last == get_last_actions(blackboard', bbCall'.agent, 1)
          IN  /\ Len(new) = Len(old) + 1
              /\ SubSeq(new, 1, Len(old)) = old
              /\ Len(last) = 1
              /\ Get(last[1], "action", None) = bbCall'.arg]_vars

\* ------------------------------------------------------------------------
\* The order of the effects of a step (base_agent.py 150-183).  obs.updates
\* counts the policy_model.update calls and obs.steps the runs that reached
\* their append_action_log call and returned.

\* C21: within a step the chosen action is appended to the action history
\* only after the Policy.update of that step and after its action-log entry
\* has been written, so that the append ends the step.
C21_HistoryAppendIsLast ==
    [][actions_history' # actions_history =>
          /\ obs.updates = Len(actions_history) + 1
          /\ obs.steps = Len(actions_history) + 1]_vars

\* C25: each completed step performs exactly one Policy.update; it appends
\* exactly one tuple to the replay buffer when the agent has one and none,
\* without an error, when it has none; the appended tuple carries the
\* encoded state, action index, reward and encoded next state of the
\* experience given to Policy.update.
C25_OneUpdateOneTuple ==
    /\ pc = "idle" =>
          /\ obs.updates = obs.steps
          /\ obs.adds = IF conf.replay_buffer # None THEN obs.steps ELSE 0
    /\ pc = "log" =>
          /\ obs.updates = obs.steps + 1
          /\ obs.adds = IF conf.replay_buffer # None THEN obs.steps + 1 ELSE 0
    /\ (pc = "log" /\ conf.replay_buffer # None) =>
          /\ obs.replay.state = obs.experience.state
          /\ obs.replay.action = obs.experience.action
          /\ obs.replay.reward = obs.experience.reward
          /\ obs.replay.next_state = obs.experience.next_state
    /\ conf.replay_buffer = None => obs.replay = NoReplay

\* a second step of an agent with a replay buffer has handed over its
\* experience, after a first step whose reward was another one
C25_Witness ==
    /\ pc = "log"
    /\ conf.replay_buffer # None
    /\ obs.steps = 1
    /\ obs.updates = 2
    /\ obs.adds = 2
    /\ obs.rewards = <<0, 1>>
    /\ obs.replay.reward = 1
    /\ obs.replay.state = loc.encoded_state

\* the sum of a list of numbers
RECURSIVE SumOf(_)
SumOf(q) == IF q = <<>> THEN 0 ELSE Head(q) + SumOf(Tail(q))

\* C26: after n completed steps episode_total_reward is the sum of the n
\* rewards get_reward returned, and computing and accumulating the reward
\* changes nothing on the blackboard: no step writes a reward into the
\* shared state.
C26_RewardOnlyAccumulated ==
    /\ [](/\ episode_total_reward = SumOf(obs.rewards)
          /\ pc = "idle" => Len(obs.rewards) = obs.steps
          /\ ~HasKey(blackboard, "reward_log")
          /\ ~HasKey(snapshot, "reward_log"))
    /\ [][pc = "reward" => blackboard' = blackboard /\ snapshot' = snapshot]_vars

\* two completed steps with the rewards 1 and 1
C26_Witness ==
    /\ pc = "idle"
    /\ obs.steps = 2
    /\ obs.rewards = <<1, 1>>
    /\ episode_total_reward = 2
    /\ obs.committed = blackboard

\* the places of run in the order of its statements: fill and observe lead
\* from "idle" to "select", and the extraction of the leaves stays at "parse"
StageOrder == <<"idle", "select", "execute", "parse", "merge", "commit",
                "reward", "history", "learn", "log">>

StageAfter(stage) ==
    LET i == CHOOSE j \in 1..Len(StageOrder) : StageOrder[j] = stage
    IN  StageOrder[(i % Len(StageOrder)) + 1]

AfterExecute == {"parse", "merge", "commit", "reward", "learn", "log"}

\* the last record of the errors of the blackboard
LastError == ErrorsOf(blackboard)[Len(ErrorsOf(blackboard))]

RECURSIVE SameKeys(_, _)
SameKeys(x, template) ==
    IsDict(template) =>
        /\ IsDict(x)
        /\ DOMAIN x.v = DOMAIN template.v
        /\ \A k \in DOMAIN template.v : SameKeys(x.v[k], template.v[k])

\* C19: the candidate a step passes to update_state is what check_state
\* gave for the merged state, so its keys are those of the template at every
\* depth.
C19_CandidateIsChecked ==
    pc = "commit" =>
        /\ loc.new_info = obs.checked
        /\ SameKeys(loc.new_info, initialize_blackboard)

\* C20: every step that starts ends at the action log, having appended the
\* chosen action to the history, whatever failed before in the step.
C20_StepReachesLog ==
    [][(pc # "idle" /\ pc' = "idle") =>
           /\ pc = "log"
           /\ bbCall'.op = "append_action_log"
           /\ actions_history' # <<>>
           /\ actions_history'[Len(actions_history')] = loc.action]_vars

\* ------------------------------------------------------------------------
\* Failed commands and the CommandCache (SpecExec)

\* the error records of the blackboard for an action
ErrorsFor(bb, action) ==
    SelectSeq(ErrorsOf(bb), LAMBDA e : Get(e, "action", None) = Str(action))

\* C34: a failed or timed-out command is memoized like a success: the empty
\* output is stored in the CommandCache, so a later call for the action
\* returns the empty string without running the command and without another
\* error record; there is at most one error record per action string.
C34_FailureIsMemoized ==
    /\ \A a \in Actions :
          /\ Len(ErrorsFor(blackboard, a)) <= 1
          /\ ErrorsFor(blackboard, a) # <<>> =>
                /\ a \in DOMAIN command_cache
                /\ command_cache[a] = ""
                /\ obs.runs[a] = 1
    /\ (/\ obs.call = "perform_action"
        /\ obs.nth > 1
        /\ ErrorsFor(blackboard, obs.action) # <<>>) =>
          /\ obs.output = ""
          /\ ~obs.executed
          /\ ~obs.failed

\* a second call for an action whose command failed in the first
C34_Witness ==
    /\ obs.call = "perform_action"
    /\ obs.nth > 1
    /\ Len(ErrorsFor(blackboard, obs.action)) = 1
    /\ obs.output = ""
    /\ ~obs.executed
    /\ obs.runs[obs.action] = 1

\* ------------------------------------------------------------------------
\* The value 'NO' in a fragment (SpecMerge)

\* new has no key that old lacks, at every depth
RECURSIVE NoNewKeys(_, _)
NoNewKeys(old, new) ==
    IsDict(old) =>
        /\ IsDict(new)
        /\ DOMAIN new.v \subseteq DOMAIN old.v
        /\ \A k \in DOMAIN new.v : NoNewKeys(old.v[k], new.v[k])

\* C33: update_state_with_categories takes the value 'NO' for 'nothing
\* found': a fragment entry whose value is 'NO' leaves the state leaf at its
\* place (scalar, list or mapping) unchanged; the function does not mutate
\* the state it is given and adds no key that this state lacks.
C33_NoMeansNothingFound ==
    [][/\ \A p \in KeyPaths \cup {<<>>} :
             At(mfrag', p) = Str("NO") => At(mstate', p) = At(mstate, p)
       /\ mprev' = mstate
       /\ NoNewKeys(mstate, mstate')]_vars

\* 'NO' came for the os mapping of a state with an empty hostname, and the
\* state is as it was
C33_Witness ==
    /\ At(mfrag, <<"target", "os">>) = Str("NO")
    /\ IsDict(At(mstate, <<"target", "os">>))
    /\ At(mstate, HostnamePath) = Str("")
    /\ At(mstate, ServicesPath) = List(<<ServicePlaceholder>>)
    /\ mprev = mstate

\* ------------------------------------------------------------------------
\* The keys of the extraction cache (base_agent.py 337-339).  obs.cached
\* holds the reply stored last for each pair of an action and a leaf path.

\* the number of replies stored
MaxStores == 2

\* action strings, some of them holding the separator and keys of the
\* template
KeyActions == {Action1, "scan", "scan::target", "scan::target::os"}

\* the replies stored
KeyReplies == {Str("w"), Str("v")}

KeyPairs == KeyActions \X LeafPaths

\* line 338 and the llm_cache.set of the loop: a reply is stored for a pair
CacheReplyCall ==
    /\ Cardinality(DOMAIN llm_cache) < MaxStores
    /\ \E pair \in KeyPairs, reply \in KeyReplies :
          /\ llm_cache' = llm_set(llm_cache, CacheKey(pair[1], pair[2]), reply)
          /\ obs' = [obs EXCEPT !.call = "llm_set",
                                !.cached = CachePut(@, pair, reply)]
    /\ UNCHANGED <<command_cache, epsVars, stepVars, conf, pc, loc, bbVars,
                   mergeVars, loopVars>>

InitKeys == BBStart /\ MergeIdle /\ AgentIdle /\ OrchestratorIdle

NextKeys == CacheReplyCall

SpecKeys == InitKeys /\ [][NextKeys]_vars

\* C35: distinct pairs of an action and a leaf path map to distinct keys of
\* the extraction cache, for every action string and every path of the
\* template, so that a reply cached for one pair is never returned for
\* another pair.
C35_KeysAreDistinct ==
    /\ \A p, q \in KeyPairs :
          p # q => CacheKey(p[1], p[2]) # CacheKey(q[1], q[2])
    /\ \A p \in KeyPairs :
          llm_get(llm_cache, CacheKey(p[1], p[2])) =
              IF p \in DOMAIN obs.cached THEN obs.cached[p] ELSE None

\* replies were stored for two pairs whose actions and paths overlap
C35_Witness ==
    /\ DOMAIN obs.cached = {<<"scan", "target::os::name">>,
                            <<"scan::target::os", "target::hostname">>}
    /\ llm_get(llm_cache, "scan::target::os::name") = Str("w")
    /\ llm_get(llm_cache, "scan::target::os::target::hostname") = Str("v")

\* ------------------------------------------------------------------------
\* Calls of the BlackboardAPI with objects the caller keeps: the dict of
\* the blackboard itself, and a fragment the caller writes to after the
\* call (api.py 102-170).  loc.fragment is the fragment of the caller and
\* loc.shared the places of the blackboard that hold an object of it.

\* a dict argument is a dict value of its own, or the dict object of the
\* blackboard, whose items are read when the argument is used
OwnDict == [t |-> "ref", v |-> "blackboard"]
DictItems(x, bb) == IF x = OwnDict THEN bb ELSE x

\* lines 154-170: the test, clear() and update(new_state); the argument is
\* read after the clear
overwrite_blackboard(bb, new_state) ==
    IF ~IsDict(DictItems(new_state, bb)) THEN Raised(bb)
    ELSE LET cleared == EmptyDict
         IN  Returned(DictUpdate(cleared, DictItems(new_state, cleared)))

\* lines 102-112: the list the items are appended to is the one of the
\* target, or a new list that is not stored when the target has none
update_target_services(bb, new_services) ==
    IF ~HasKey(bb, "target") \/ ~IsDict(bb.v["target"]) THEN Raised(bb)
    ELSE LET target == bb.v["target"]
             existing == Get(target, "services", List(<<>>))
         IN  IF ~IsList(existing)
             THEN IF new_services.v = <<>> THEN Returned(bb) ELSE Raised(bb)
             ELSE IF HasKey(target, "services")
                  THEN Returned(SetAt(bb, ServicesPath,
                                      List(merge_list(existing.v,
                                                      new_services.v))))
                  ELSE Returned(bb)

\* lines 141, 143, 150 and 152: the values of the fragment the reducers
\* store are its objects; the places of the blackboard that hold a
\* container of the fragment after update_state
IsContainer(x) == IsDict(x) \/ IsList(x)
SharedAfter(agent_name, new_state) ==
    IF Lower(agent_name) = "reconagent"
    THEN {<<"target", k>> : k \in
             {k \in (IF IsDict(Get(new_state, "target", None))
                     THEN DOMAIN new_state.v["target"].v ELSE {}) :
                 IsContainer(new_state.v["target"].v[k])}}
         \cup {<<k>> : k \in
                 {k \in {"web_directories_status"} :
                     IsContainer(Get(new_state, k, None))}}
    ELSE IF Lower(agent_name) = "vulnagent"
         THEN {<<k>> : k \in
                 {k \in {"cpes", "vulnerabilities_found"} :
                     IsContainer(Get(new_state, k, None))}}
         ELSE {}

\* the arguments of the calls
OverwriteArgs ==
    {OwnDict, EmptyDict, initialize_blackboard,
     Dict([target |-> Dict([hostname |-> Str("box1")])]),
     None, List(<<>>)}

ServiceLists ==
    {List(<<>>), List(<<Item1>>), List(<<Item1, Item1>>),
     List(<<ServicePlaceholder, Item1>>)}

ArgFragments ==
    {Dict([target |-> Dict([hostname |-> Str("box1"),
                            os |-> Dict([name |-> Str("linux")])])]),
     Dict([web_directories_status |->
              Dict([x \in {"200"} |-> Str("/admin")])]),
     Dict([cpes |-> List(<<Str("cpe1")>>)])}

\* what the caller assigns, and the places of the fragment it assigns at
Mark == Str("x")
FragmentPaths ==
    {HostnamePath, <<"target", "os", "name">>,
     <<"web_directories_status", "200">>, <<"cpes">>}

Front(path) == SubSeq(path, 1, Len(path) - 1)

\* an assignment at path in the fragment is one to an object the blackboard
\* holds
SharedWrite(shared, path) ==
    \E q \in shared : IsPrefix(q, Front(path))

OverwriteCall ==
    /\ \E new_state \in OverwriteArgs :
          Finish("overwrite_blackboard",
                 overwrite_blackboard(blackboard, new_state),
                 "", new_state, TRUE)
    /\ loc' = [loc EXCEPT !.fragment = None, !.shared = {}]
    /\ UNCHANGED <<diskOk, cacheVars, epsVars, stepVars, conf, pc, obs,
                   mergeVars, loopVars>>

UpdateTargetServicesCall ==
    /\ \E new_services \in ServiceLists :
          Finish("update_target_services",
                 update_target_services(blackboard, new_services),
                 "", new_services, FALSE)
    /\ loc' = [loc EXCEPT !.fragment = None, !.shared = {}]
    /\ UNCHANGED <<diskOk, cacheVars, epsVars, stepVars, conf, pc, obs,
                   mergeVars, loopVars>>

\* update_state with a fragment the caller keeps
ArgUpdateStateCall ==
    /\ \E agent \in {ReconName, "VulnAgent"}, f \in ArgFragments :
          LET r == update_state(blackboard, agent, f)
          IN  /\ Finish("update_state", r, agent, f, TRUE)
              /\ loc' = [loc EXCEPT
                            !.fragment = f,
                            !.shared = IF r.raised THEN {}
                                       ELSE SharedAfter(agent, f)]
    /\ UNCHANGED <<diskOk, cacheVars, epsVars, stepVars, conf, pc, obs,
                   mergeVars, loopVars>>

\* the caller assigns the mark at a place of its fragment: a step that is
\* no call of the API
FragmentMutate ==
    /\ IsDict(loc.fragment)
    /\ \E path \in FragmentPaths :
          /\ IsDict(At(loc.fragment, Front(path)))
          /\ At(loc.fragment, path) # Mark
          /\ loc' = [loc EXCEPT !.fragment = SetAt(@, path, Mark)]
          /\ blackboard' = IF SharedWrite(loc.shared, path)
                           THEN SetAt(blackboard, path, Mark)
                           ELSE blackboard
    /\ bbCall' = NoCall
    /\ UNCHANGED <<snapshot, diskOk, cacheVars, epsVars, stepVars, conf,
                   pc, obs, mergeVars, loopVars>>

InitArgs == BBStart /\ MergeIdle /\ AgentIdle /\ OrchestratorIdle

NextArgs ==
    \/ OverwriteCall
    \/ UpdateTargetServicesCall
    \/ ArgUpdateStateCall
    \/ FragmentMutate
    \/ AddErrorCall

SpecArgs == InitArgs /\ [][NextArgs]_vars

\* the elements of a sequence
Range(seq) == {seq[i] : i \in 1..Len(seq)}

\* val is x or a value nested in x
RECURSIVE Occurs(_, _)
Occurs(val, x) ==
    \/ x = val
    \/ IsDict(x) /\ \E k \in DOMAIN x.v : Occurs(val, x.v[k])
    \/ IsList(x) /\ \E i \in 1..Len(x.v) : Occurs(val, x.v[i])

\* C31: overwrite_blackboard(new_state) with a mapping, the dict of the
\* blackboard itself included, leaves a blackboard equal to the content
\* new_state had at the call (so no other key of the previous blackboard
\* survives) and saves it; with an argument that is no mapping it raises and
\* changes neither the blackboard nor the file.
C31_OverwriteReplaces ==
    [][bbCall'.op = "overwrite_blackboard" =>
        LET content == DictItems(bbCall'.arg, blackboard)
        IN  IF IsDict(content)
            THEN /\ ~bbCall'.raised
                 /\ blackboard' = content
                 /\ bbCall'.ok => snapshot' = content
            ELSE /\ bbCall'.raised
                 /\ blackboard' = blackboard
                 /\ snapshot' = snapshot]_vars

\* C32: update_target_services(new_services) that returns leaves every
\* service of new_services in target.services, also when the target had no
\* services entry; the services present before are a prefix of the list,
\* and every service after them is one of new_services that is not equal to
\* a service before it in the list.
C32_ServicesMerged ==
    [][(/\ bbCall'.op = "update_target_services"
        /\ ~bbCall'.raised
        /\ IsList(Get(At(blackboard, <<"target">>), "services",
                       List(<<>>)))) =>
        LET old == Get(At(blackboard, <<"target">>), "services",
                       List(<<>>)).v
            new == At(blackboard', ServicesPath)
        IN  /\ IsList(new)
            /\ IsPrefix(old, new.v)
            /\ Range(bbCall'.arg.v) \subseteq Range(new.v)
            /\ \A i \in (Len(old) + 1)..Len(new.v) :
                    /\ new.v[i] \in Range(bbCall'.arg.v)
                    /\ new.v[i] \notin Range(SubSeq(new.v, 1, i - 1))]_vars

\* C36: once update_state has returned, an assignment of the caller in its
\* fragment, or in an object nested in it, changes neither the blackboard in
\* memory nor the file a later call writes: the value assigned is never
\* held by either.
C36_FragmentNotShared ==
    /\ [][(bbCall' = NoCall /\ loc'.fragment # loc.fragment) =>
            blackboard' = blackboard]_vars
    /\ [](~Occurs(Mark, blackboard) /\ ~Occurs(Mark, snapshot))

====
